---- MODULE Spec2Model ----
(***************************************************************************)
(* Model of the proxy core of omss-spec/framework: the descriptor codec    *)
(* (createProxyUrl / decodeProxyData), the URL resolver (resolveUrl), the  *)
(* manifest rewriter (rewriteManifest) and the request path                *)
(* ProxyController.proxy -> ProxyService.proxyRequest -> errorHandler.     *)
(*                                                                         *)
(* A JavaScript string is a sequence of one-character strings.             *)
(***************************************************************************)
EXTENDS Integers, Sequences, FiniteSets, TLC

(***************************************************************************)
(* Characters                                                              *)
(***************************************************************************)

\* Printable ASCII, code 32 .. 126, in code order. Code 96 (the grave accent)
\* is written "GRAVE": the lexer of TLA+ does not accept that character in a
\* string; no input of the model contains it.
Ascii ==
  << " ", "!", "\"", "#", "$", "%", "&", "'", "(", ")", "*", "+", ",", "-", ".", "/",
     "0", "1", "2", "3", "4", "5", "6", "7", "8", "9", ":", ";", "<", "=", ">", "?",
     "@", "A", "B", "C", "D", "E", "F", "G", "H", "I", "J", "K", "L", "M", "N", "O",
     "P", "Q", "R", "S", "T", "U", "V", "W", "X", "Y", "Z", "[", "\\", "]", "^", "_",
     "GRAVE", "a", "b", "c", "d", "e", "f", "g", "h", "i", "j", "k", "l", "m", "n", "o",
     "p", "q", "r", "s", "t", "u", "v", "w", "x", "y", "z", "{", "|", "}", "~" >>

Chars == { Ascii[i] : i \in 1..Len(Ascii) } \cup { "\t", "\n", "\r" }

CodeOf ==
  [ c \in Chars |->
      IF c = "\t" THEN 9
      ELSE IF c = "\n" THEN 10
      ELSE IF c = "\r" THEN 13
      ELSE 31 + (CHOOSE i \in 1..Len(Ascii) : Ascii[i] = c) ]

HasChar(n) == n \in {9, 10, 13} \/ (n > 31 /\ n <= 31 + Len(Ascii))

CharOf(n) ==
  IF n = 9 THEN "\t"
  ELSE IF n = 10 THEN "\n"
  ELSE IF n = 13 THEN "\r"
  ELSE Ascii[n - 31]

Digits == { "0", "1", "2", "3", "4", "5", "6", "7", "8", "9" }
Lower  == { Ascii[i] : i \in 66..91 }
Upper  == { Ascii[i] : i \in 34..59 }
Alnum  == Digits \cup Lower \cup Upper

ToLowerChar(c) == IF c \in Upper THEN CharOf(CodeOf[c] + 32) ELSE c
ToLower(s) == [ i \in 1..Len(s) |-> ToLowerChar(s[i]) ]

HexDigits == << "0", "1", "2", "3", "4", "5", "6", "7", "8", "9", "A", "B", "C", "D", "E", "F" >>
IsHex(c) == \E i \in 1..16 : ToLowerChar(HexDigits[i]) = ToLowerChar(c)
HexVal(c) == (CHOOSE i \in 1..16 : ToLowerChar(HexDigits[i]) = ToLowerChar(c)) - 1

\* String.prototype.trim strips these from both ends.
WhiteSpace == { " ", "\t", "\n", "\r" }

(***************************************************************************)
(* String primitives, after String.prototype                              *)
(***************************************************************************)

StartsWithAt(s, p, i) ==
  /\ i >= 1
  /\ i + Len(p) - 1 <= Len(s)
  /\ \A k \in 1..Len(p) : s[i + k - 1] = p[k]

startsWith(s, p) == StartsWithAt(s, p, 1)
endsWith(s, p)   == StartsWithAt(s, p, Len(s) - Len(p) + 1)
includes(s, p)   == \E i \in 1..(Len(s) + 1) : StartsWithAt(s, p, i)

\* s.lastIndexOf(c), 0-based, -1 when absent
lastIndexOf(s, c) ==
  IF \E i \in 1..Len(s) : s[i] = c
  THEN (CHOOSE i \in 1..Len(s) : s[i] = c /\ \A j \in (i + 1)..Len(s) : s[j] # c) - 1
  ELSE -1

\* s.substring(0, n)
substring0(s, n) == SubSeq(s, 1, n)

Drop(s, n) == SubSeq(s, n + 1, Len(s))

LeadingWs(s) ==
  IF \A i \in 1..Len(s) : s[i] \in WhiteSpace THEN Len(s)
  ELSE (CHOOSE i \in 1..Len(s) : s[i] \notin WhiteSpace /\ \A j \in 1..(i - 1) : s[j] \in WhiteSpace) - 1

TrailingWs(s) ==
  IF \A i \in 1..Len(s) : s[i] \in WhiteSpace THEN Len(s)
  ELSE Len(s) - (CHOOSE i \in 1..Len(s) : s[i] \notin WhiteSpace /\ \A j \in (i + 1)..Len(s) : s[j] \in WhiteSpace)

trim(s) ==
  IF LeadingWs(s) = Len(s) THEN << >>
  ELSE SubSeq(s, LeadingWs(s) + 1, Len(s) - TrailingWs(s))

\* the strings of ss, one after the other
RECURSIVE Concat(_)
Concat(ss) ==
  IF Len(ss) = 0 THEN << >>
  ELSE IF Len(ss) = 1 THEN ss[1]
  ELSE LET h == Len(ss) \div 2
       IN  Concat(SubSeq(ss, 1, h)) \o Concat(SubSeq(ss, h + 1, Len(ss)))

\* content.split(sep) for a one-character separator
RECURSIVE split(_, _)
split(s, sep) ==
  IF \A i \in 1..Len(s) : s[i] # sep THEN << s >>
  ELSE LET i == CHOOSE k \in 1..Len(s) : s[k] = sep /\ \A j \in 1..(k - 1) : s[j] # sep
       IN  << SubSeq(s, 1, i - 1) >> \o split(Drop(s, i), sep)

\* lines.join(sep)
RECURSIVE join(_, _)
join(ss, sep) ==
  IF ss = << >> THEN << >>
  ELSE IF Len(ss) = 1 THEN ss[1]
  ELSE ss[1] \o sep \o join(Tail(ss), sep)

(***************************************************************************)
(* encodeURIComponent / decodeURIComponent                                 *)
(***************************************************************************)

\* Characters encodeURIComponent leaves alone.
UriUnreserved == Alnum \cup { "-", "_", ".", "!", "~", "*", "'", "(", ")" }

PercentEncode(c) ==
  << "%", HexDigits[(CodeOf[c] \div 16) + 1], HexDigits[(CodeOf[c] % 16) + 1] >>

encodeURIComponent(s) ==
  Concat([ i \in 1..Len(s) |->
             IF s[i] \in UriUnreserved THEN << s[i] >> ELSE PercentEncode(s[i]) ])

\* Result of a call that may throw: ok = FALSE stands for the exception.
Thrown == [ok |-> FALSE]
Ret(v) == [ok |-> TRUE, v |-> v]

\* decodeURIComponent: every "%" must start "%XX" with two hex digits, and the
\* byte must be a character of the modelled alphabet (a lone byte >= 0x80 is a
\* URIError; multi-byte UTF-8 sequences are outside the alphabet). A hex digit
\* is never "%", so the escapes are exactly the "%" positions.
decodeURIComponent(s) ==
  LET escOk(i) == /\ i + 2 <= Len(s)
                  /\ IsHex(s[i + 1]) /\ IsHex(s[i + 2])
                  /\ HasChar(HexVal(s[i + 1]) * 16 + HexVal(s[i + 2]))
      inEsc(i) == \/ i > 1 /\ s[i - 1] = "%"
                  \/ i > 2 /\ s[i - 2] = "%"
  IN  IF \E i \in 1..Len(s) : s[i] = "%" /\ ~escOk(i) THEN Thrown
      ELSE Ret(Concat([ i \in 1..Len(s) |->
                          IF s[i] = "%" THEN << CharOf(HexVal(s[i + 1]) * 16 + HexVal(s[i + 2])) >>
                          ELSE IF inEsc(i) THEN << >>
                          ELSE << s[i] >> ]))

(***************************************************************************)
(* JSON values, JSON.stringify, JSON.parse                                 *)
(*                                                                         *)
(* A value is a record tagged by t: "undef" (JavaScript undefined),        *)
(* "null", "bool", "num" (n: its digits), "str" (s: its characters),       *)
(* "arr" (a: its elements) and "obj" (m: its members, in property order,   *)
(* each [k |-> name, v |-> value], names unique).                          *)
(***************************************************************************)

Undef   == [t |-> "undef"]
Null    == [t |-> "null"]
Bool(b) == [t |-> "bool", b |-> b]
Num(n)  == [t |-> "num", n |-> n]
Str(s)  == [t |-> "str", s |-> s]
Arr(a)  == [t |-> "arr", a |-> a]
Obj(m)  == [t |-> "obj", m |-> m]

HasKey(m, k) == \E i \in 1..Len(m) : m[i].k = k

\* obj[k], undefined when absent
GetKey(m, k) ==
  IF HasKey(m, k) THEN m[CHOOSE i \in 1..Len(m) : m[i].k = k].v ELSE Undef

\* obj[k] = v: an existing property keeps its place, a new one goes last
SetKey(m, k, v) ==
  IF HasKey(m, k)
  THEN [ i \in 1..Len(m) |-> IF m[i].k = k THEN [k |-> k, v |-> v] ELSE m[i] ]
  ELSE Append(m, [k |-> k, v |-> v])

\* { ...a, ...b } on member lists
RECURSIVE Spread(_, _)
Spread(a, b) ==
  IF b = << >> THEN a ELSE Spread(SetKey(a, Head(b).k, Head(b).v), Tail(b))

\* JavaScript truthiness
Truthy(v) ==
  CASE v.t = "undef" -> FALSE
    [] v.t = "null"  -> FALSE
    [] v.t = "bool"  -> v.b
    [] v.t = "num"   -> \E i \in 1..Len(v.n) : v.n[i] \in (Digits \ {"0"})
    [] v.t = "str"   -> v.s # << >>
    [] OTHER         -> TRUE

QuoteChar(c) ==
  IF c = "\"" THEN << "\\", "\"" >>
  ELSE IF c = "\\" THEN << "\\", "\\" >>
  ELSE IF c = "\n" THEN << "\\", "n" >>
  ELSE IF c = "\r" THEN << "\\", "r" >>
  ELSE IF c = "\t" THEN << "\\", "t" >>
  ELSE << c >>

\* JSON.stringify of a string
Quote(s) == << "\"" >> \o Concat([ i \in 1..Len(s) |-> QuoteChar(s[i]) ]) \o << "\"" >>

RECURSIVE JSONstringify(_)
JSONstringify(v) ==
  CASE v.t = "null" -> << "n", "u", "l", "l" >>
    [] v.t = "undef" -> << "n", "u", "l", "l" >>   \* only reached for array elements
    [] v.t = "bool" -> IF v.b THEN << "t", "r", "u", "e" >> ELSE << "f", "a", "l", "s", "e" >>
    [] v.t = "num"  -> v.n
    [] v.t = "str"  -> Quote(v.s)
    [] v.t = "arr"  ->
         << "[" >> \o join([ i \in 1..Len(v.a) |-> JSONstringify(v.a[i]) ], << "," >>) \o << "]" >>
    [] v.t = "obj"  ->
         LET kept == SelectSeq(v.m, LAMBDA e : e.v.t # "undef")
         IN  << "{" >>
             \o join([ i \in 1..Len(kept) |->
                         Quote(kept[i].k) \o << ":" >> \o JSONstringify(kept[i].v) ], << "," >>)
             \o << "}" >>

\* Parse results: [ok, v, i] with i the index of the first unread character.
\* F(x) with x evaluated once, as a const binding is
Once(x, F(_)) == CHOOSE r \in { F(v) : v \in { x } } : TRUE

PFail == [ok |-> FALSE, v |-> Undef, i |-> 0]
POk(v, i) == [ok |-> TRUE, v |-> v, i |-> i]

RECURSIVE SkipWs(_, _)
SkipWs(s, i) == IF i <= Len(s) /\ s[i] \in WhiteSpace THEN SkipWs(s, i + 1) ELSE i

\* number of consecutive backslashes that end just before s[k], within s[i..]
BackslashRun(s, i, k) ==
  LET stop == CHOOSE m \in (i - 1)..(k - 1) :
                /\ m = i - 1 \/ s[m] # "\\"
                /\ \A j \in (m + 1)..(k - 1) : s[j] = "\\"
  IN  k - 1 - stop

\* The characters of a string literal after its opening quote at s[i - 1]: up
\* to the first quote that is not escaped. A \uXXXX escape is accepted when it
\* names a character of the modelled alphabet.
ParseStrBody(s, i, acc) ==
  LET closes(j)  == s[j] = "\"" /\ BackslashRun(s, i, j) % 2 = 0
      escapes(k) == s[k] = "\\" /\ BackslashRun(s, i, k) % 2 = 0
      uAt(k)     == k >= i /\ escapes(k) /\ s[k + 1] = "u"
      uOk(k)     == /\ k + 5 <= Len(s)
                    /\ \A d \in 2..5 : IsHex(s[k + d])
                    /\ HexVal(s[k + 2]) = 0 /\ HexVal(s[k + 3]) = 0
                    /\ HasChar(HexVal(s[k + 4]) * 16 + HexVal(s[k + 5]))
      simple     == { "\"", "\\", "/", "n", "r", "t" }
      unescape(c) == IF c = "n" THEN "\n" ELSE IF c = "r" THEN "\r" ELSE IF c = "t" THEN "\t" ELSE c
  IN  IF ~\E j \in i..Len(s) : closes(j) THEN PFail
      ELSE Once(CHOOSE j \in i..Len(s) : closes(j) /\ \A m \in i..(j - 1) : ~closes(m), LAMBDA e :
        LET eaten(k) == \/ k > i /\ escapes(k - 1)
                        \/ \E d \in 2..5 : uAt(k - d)
            bad(k) == \/ s[k] \in { "\t", "\n", "\r" }
                      \/ escapes(k) /\ s[k + 1] \notin simple /\ ~(s[k + 1] = "u" /\ uOk(k))
                      \/ \E d \in 2..5 : uAt(k - d) /\ k - d + 5 >= e
        IN  IF \E k \in i..(e - 1) : ~eaten(k) /\ bad(k) THEN PFail
            ELSE POk(acc \o Concat([ n \in 1..(e - i) |->
                       LET k == i + n - 1
                       IN  IF eaten(k) THEN << >>
                           ELSE IF ~escapes(k) THEN << s[k] >>
                           ELSE IF s[k + 1] = "u"
                                THEN << CharOf(HexVal(s[k + 4]) * 16 + HexVal(s[k + 5])) >>
                                ELSE << unescape(s[k + 1]) >> ]),
                     e + 1))

RECURSIVE DigitsEnd(_, _)
DigitsEnd(s, i) == IF i <= Len(s) /\ s[i] \in Digits THEN DigitsEnd(s, i + 1) ELSE i

\* Integer literals: -? (0 | [1-9][0-9]*). Fractions and exponents are not in
\* any input of the model.
ParseNumber(s, i) ==
  LET j == IF s[i] = "-" THEN i + 1 ELSE i
      e == DigitsEnd(s, j)
  IN  IF e = j THEN PFail
      ELSE IF s[j] = "0" /\ e > j + 1 THEN POk(Num(SubSeq(s, i, j)), j + 1)
      ELSE POk(Num(SubSeq(s, i, e - 1)), e)

RECURSIVE ParseValue(_, _), ParseElems(_, _, _), ParseMembers(_, _, _)
\* value at s[i] (leading whitespace already skipped)
ParseValue(s, i) ==
  IF i > Len(s) THEN PFail
  ELSE IF StartsWithAt(s, << "n", "u", "l", "l" >>, i) THEN POk(Null, i + 4)
  ELSE IF StartsWithAt(s, << "t", "r", "u", "e" >>, i) THEN POk(Bool(TRUE), i + 4)
  ELSE IF StartsWithAt(s, << "f", "a", "l", "s", "e" >>, i) THEN POk(Bool(FALSE), i + 5)
  ELSE IF s[i] = "\"" THEN
         Once(ParseStrBody(s, i + 1, << >>), LAMBDA r :
           IF r.ok THEN POk(Str(r.v), r.i) ELSE PFail)
  ELSE IF s[i] \in Digits \cup { "-" } THEN ParseNumber(s, i)
  ELSE IF s[i] = "[" THEN
         LET j == SkipWs(s, i + 1)
         IN  IF j <= Len(s) /\ s[j] = "]" THEN POk(Arr(<< >>), j + 1)
             ELSE ParseElems(s, j, << >>)
  ELSE IF s[i] = "{" THEN
         LET j == SkipWs(s, i + 1)
         IN  IF j <= Len(s) /\ s[j] = "}" THEN POk(Obj(<< >>), j + 1)
             ELSE ParseMembers(s, j, << >>)
  ELSE PFail

\* elements of an array from s[i], acc the elements read so far
ParseElems(s, i, acc) ==
  Once(ParseValue(s, i), LAMBDA r :
    LET j == SkipWs(s, r.i)
    IN  IF ~r.ok \/ j > Len(s) THEN PFail
        ELSE IF s[j] = "]" THEN POk(Arr(Append(acc, r.v)), j + 1)
        ELSE IF s[j] = "," THEN ParseElems(s, SkipWs(s, j + 1), Append(acc, r.v))
        ELSE PFail)

\* members of an object from s[i]; a repeated name keeps its last value
ParseMembers(s, i, acc) ==
  IF i > Len(s) \/ s[i] # "\"" THEN PFail
  ELSE
    Once(ParseStrBody(s, i + 1, << >>), LAMBDA k :
      LET c == SkipWs(s, k.i)
      IN  IF ~k.ok \/ c > Len(s) \/ s[c] # ":" THEN PFail
          ELSE Once(ParseValue(s, SkipWs(s, c + 1)), LAMBDA r :
            LET j == SkipWs(s, r.i)
            IN  IF ~r.ok \/ j > Len(s) THEN PFail
                ELSE IF s[j] = "}" THEN POk(Obj(SetKey(acc, k.v, r.v)), j + 1)
                ELSE IF s[j] = "," THEN ParseMembers(s, SkipWs(s, j + 1), SetKey(acc, k.v, r.v))
                ELSE PFail))

\* JSON.parse: Thrown for a SyntaxError
JSONparse(s) ==
  Once(ParseValue(s, SkipWs(s, 1)), LAMBDA r :
    IF r.ok /\ SkipWs(s, r.i) = Len(s) + 1 THEN Ret(r.v) ELSE Thrown)

(***************************************************************************)
(* Program state                                                           *)
(***************************************************************************)

VARIABLES
  proxyConfig,     \* BaseProvider.proxyConfig (static)
  streamPatterns,  \* ProxyService.streamPatterns
  fin,             \* arguments of the function under study
  fout,            \* what it returned (or the sequence of values it returned)
  phase,           \* position of the proxy request in ProxyController.proxy
  request,         \* the inbound request: query and headers
  pending,         \* the descriptor and transport mode of the request in flight
  upstream,        \* the upstream requests issued by axios.get, in order
  upResp,          \* the upstream's answer to the last of them
  result,          \* what ProxyService.proxyRequest returned or threw
  reply,           \* the replies sent to the client, in order
  trace,           \* the operations the request went through, in order
  conn             \* the connection to the upstream that carries the response

vars == << proxyConfig, streamPatterns, fin, fout, phase, request, pending, upstream, upResp,
           result, reply, trace, conn >>

reqVars == << streamPatterns, phase, request, pending, upstream, upResp, result, reply, trace,
              conn >>

None == [t |-> "none"]

(***************************************************************************)
(* Descriptor codec                                                        *)
(***************************************************************************)

K_url     == << "u", "r", "l" >>
K_headers == << "h", "e", "a", "d", "e", "r", "s" >>

\* "/v1/proxy?data="
ProxyPath ==
  << "/", "v", "1", "/", "p", "r", "o", "x", "y", "?", "d", "a", "t", "a", "=" >>

\* JSON.stringify({ url, headers }): url a string, headers an object or undefined
DescriptorJson(url, headers) ==
  JSONstringify(Obj(<< [k |-> K_url, v |-> Str(url)], [k |-> K_headers, v |-> headers] >>))

\* createProxyUrl without the percent-encoding of the descriptor text
createProxyUrl_Raw(url, headers) ==
  Once(DescriptorJson(url, headers), LAMBDA data : ProxyPath \o data)

\* ProxyService.createProxyUrl
createProxyUrl(url, headers) ==
  Once(DescriptorJson(url, headers), LAMBDA data : ProxyPath \o encodeURIComponent(data))

\* BaseProvider.createRelativeProxyUrl
createRelativeProxyUrl(url, headers) ==
  Once(DescriptorJson(url, headers), LAMBDA data : ProxyPath \o encodeURIComponent(data))

PortText(n) ==
  CASE n = 80   -> << "8", "0" >>
    [] n = 443  -> << "4", "4", "3" >>
    [] n = 3000 -> << "3", "0", "0", "0" >>

S_http  == << "h", "t", "t", "p" >>
S_https == << "h", "t", "t", "p", "s" >>
S_localhost == << "l", "o", "c", "a", "l", "h", "o", "s", "t" >>

\* BaseProvider.getProxyBaseUrl; in a config Undef is an unset string and 0 an
\* unset port
getProxyBaseUrl(config) ==
  IF Truthy(config.baseUrl) THEN config.baseUrl.s
  ELSE
    LET protocol == IF Truthy(config.protocol) THEN config.protocol.s ELSE S_http
        host     == IF Truthy(config.host) THEN config.host.s ELSE S_localhost
        port     == config.port
        needsPort == \/ protocol = S_http /\ port # 0 /\ port # 80
                     \/ protocol = S_https /\ port # 0 /\ port # 443
    IN  IF needsPort THEN protocol \o << ":", "/", "/" >> \o host \o << ":" >> \o PortText(port)
        ELSE protocol \o << ":", "/", "/" >> \o host

\* BaseProvider.createProxyUrl
BaseProvider_createProxyUrl(config, url, headers) ==
  Once(DescriptorJson(url, headers), LAMBDA data :
    getProxyBaseUrl(config) \o ProxyPath \o encodeURIComponent(data))

\* new OMSSError(code, message, statusCode, details): details.url is kept
OMSSError(code, statusCode, url) ==
  [t |-> "OMSSError", code |-> code, statusCode |-> statusCode, url |-> url]

TypeError == [t |-> "TypeError"]

Throw(e) == [ok |-> FALSE, err |-> e]

\* data.url in JavaScript: Thrown on null, undefined on a primitive or array
UrlOf(data) ==
  IF data.t = "null" THEN Thrown
  ELSE IF data.t = "obj" THEN Ret(GetKey(data.m, K_url))
  ELSE Ret(Undef)

\* ProxyService.decodeProxyData
decodeProxyData(encodedData) ==
  Once(encodedData, LAMBDA token :
  Once(decodeURIComponent(token), LAMBDA decoded :
  Once(IF decoded.ok THEN Once(decoded.v, JSONparse) ELSE Thrown, LAMBDA data :
    LET url == IF data.ok THEN UrlOf(data.v) ELSE Thrown
    IN  IF url.ok /\ Truthy(url.v) THEN Ret(data.v)
        ELSE Throw(OMSSError("INVALID_PARAMETER", 400, Undef)))))

\* The value of the data parameter of a proxy URL: what follows "?data="
DataToken(proxyUrl) ==
  LET q == << "?", "d", "a", "t", "a", "=" >>
      i == CHOOSE k \in 1..Len(proxyUrl) :
             StartsWithAt(proxyUrl, q, k) /\ \A j \in 1..(k - 1) : ~StartsWithAt(proxyUrl, q, j)
  IN  Drop(proxyUrl, i + Len(q) - 1)

\* a headers object from a sequence of << name, value >> pairs
Headers(pairs) == Obj([ i \in 1..Len(pairs) |-> [k |-> pairs[i][1], v |-> Str(pairs[i][2])] ])

(***************************************************************************)
(* new URL(input) and new URL(input, base), after the WHATWG URL parser,   *)
(* for the http and https schemes. Inputs of the model hold no tab, no     *)
(* backslash, no "@", no percent-encoded dot segment and no scheme other   *)
(* than these two.                                                         *)
(***************************************************************************)

UrlFail == [ok |-> FALSE]

\* first index >= from whose character is in set, Len(s) + 1 when there is none
IndexOfAny(s, from, set) ==
  IF \E i \in from..Len(s) : s[i] \in set
  THEN CHOOSE i \in from..Len(s) : s[i] \in set /\ \A j \in from..(i - 1) : s[j] \notin set
  ELSE Len(s) + 1

\* percent-encode the characters of s that are in set
EncodeSet(s, set) ==
  Concat([ i \in 1..Len(s) |-> IF s[i] \in set THEN PercentEncode(s[i]) ELSE << s[i] >> ])

PathEncodeSet     == { " ", "\"", "#", "<", ">", "?", "{", "}" }
QueryEncodeSet    == { " ", "\"", "#", "<", ">", "'" }
FragmentEncodeSet == { " ", "\"", "<", ">" }
ForbiddenHost     == { " ", "#", "/", ":", "<", ">", "?", "@", "[", "\\", "]", "^", "|", "%" }

\* "shorten a path": drop the last segment, if any
Shorten(path) == IF path = << >> THEN path ELSE SubSeq(path, 1, Len(path) - 1)

\* The path state over the segments segs (the text between slashes), the last
\* of which ends at the end of the path.
RECURSIVE PathState(_, _)
PathState(path, segs) ==
  IF segs = << >> THEN path
  ELSE
    LET seg  == Head(segs)
        last == Len(segs) = 1
        next == IF seg = << ".", "." >>
                  THEN IF last THEN Append(Shorten(path), << >>) ELSE Shorten(path)
                ELSE IF seg = << "." >>
                  THEN IF last THEN Append(path, << >>) ELSE path
                ELSE Append(path, EncodeSet(seg, PathEncodeSet))
    IN  PathState(next, Tail(segs))

\* scheme of an input that starts with one, "" otherwise
SchemeOf(s) ==
  LET c == IndexOfAny(s, 1, { ":" })
  IN  IF /\ c <= Len(s) /\ c > 1
         /\ s[1] \in Lower \cup Upper
         /\ \A i \in 2..(c - 1) : s[i] \in Alnum \cup { "+", "-", "." }
      THEN ToLower(SubSeq(s, 1, c - 1))
      ELSE << >>

DefaultPort(scheme) == IF scheme = S_http THEN << "8", "0" >> ELSE << "4", "4", "3" >>

\* host and port of an authority; the default port is dropped
ParseAuthority(scheme, auth) ==
  LET c    == IndexOfAny(auth, 1, { ":" })
      host == SubSeq(auth, 1, c - 1)
      port == Drop(auth, c)
  IN  IF host = << >> \/ \E i \in 1..Len(host) : host[i] \in ForbiddenHost THEN UrlFail
      ELSE IF \E i \in 1..Len(port) : port[i] \notin Digits THEN UrlFail
      ELSE [ok |-> TRUE,
            host |-> IF port = << >> \/ port = DefaultPort(scheme) THEN ToLower(host)
                     ELSE ToLower(host) \o << ":" >> \o port]

\* query and fragment of the text from s[i] on (s[i] is "?" or "#" or i is past the end)
TailParts(s, i) ==
  LET h == IndexOfAny(s, i, { "#" })
  IN  [query |-> IF i <= Len(s) /\ s[i] = "?"
                 THEN Str(EncodeSet(SubSeq(s, i + 1, h - 1), QueryEncodeSet)) ELSE Undef,
       fragment |-> IF h <= Len(s)
                    THEN Str(EncodeSet(Drop(s, h), FragmentEncodeSet)) ELSE Undef]

\* authority, path, query and fragment of s from s[i] on, after "scheme:" and
\* any run of slashes
ParseFromAuthority(scheme, s, i) ==
  LET a    == IndexOfAny(s, i, { "/", "?", "#" })
      auth == ParseAuthority(scheme, SubSeq(s, i, a - 1))
      q    == IndexOfAny(s, a, { "?", "#" })
      p    == IF a <= Len(s) /\ s[a] = "/" THEN SubSeq(s, a + 1, q - 1) ELSE << >>
      t    == TailParts(s, q)
  IN  IF ~auth.ok THEN UrlFail
      ELSE [ok |-> TRUE, scheme |-> scheme, host |-> auth.host,
            path |-> PathState(<< >>, split(p, "/")),
            query |-> t.query, fragment |-> t.fragment]

\* end of the run of slashes that starts at s[i]
RECURSIVE SkipSlashes(_, _)
SkipSlashes(s, i) == IF i <= Len(s) /\ s[i] = "/" THEN SkipSlashes(s, i + 1) ELSE i

\* new URL(input)
NewURL(input) ==
  LET s      == trim(input)
      scheme == SchemeOf(s)
  IN  IF scheme \notin { S_http, S_https } THEN UrlFail
      ELSE ParseFromAuthority(scheme, s, SkipSlashes(s, Len(scheme) + 2))

\* new URL(input, base) for an input that has no scheme
NewURLWithBase(input, base) ==
  LET b == NewURL(base)
      s == trim(input)
  IN  IF ~b.ok THEN UrlFail
      ELSE IF SchemeOf(s) # << >> THEN NewURL(s)
      ELSE IF s = << >> THEN [b EXCEPT !.fragment = Undef]
      ELSE IF startsWith(s, << "/", "/" >>) THEN ParseFromAuthority(b.scheme, s, SkipSlashes(s, 1))
      ELSE IF s[1] = "#" THEN [b EXCEPT !.fragment = TailParts(s, 1).fragment]
      ELSE IF s[1] = "?" THEN [b EXCEPT !.query = TailParts(s, 1).query,
                                        !.fragment = TailParts(s, 1).fragment]
      ELSE
        LET q == IndexOfAny(s, 1, { "?", "#" })
            t == TailParts(s, q)
            p == SubSeq(s, 1, q - 1)
        IN  [b EXCEPT !.path = IF s[1] = "/" THEN PathState(<< >>, split(Drop(p, 1), "/"))
                               ELSE PathState(Shorten(b.path), split(p, "/")),
                      !.query = t.query, !.fragment = t.fragment]

\* url.protocol
Protocol(u) == u.scheme \o << ":" >>

\* url.toString()
Href(u) ==
  Protocol(u) \o << "/", "/" >> \o u.host
  \o Concat([ i \in 1..Len(u.path) |-> << "/" >> \o u.path[i] ])
  \o (IF u.query.t = "str" THEN << "?" >> \o u.query.s ELSE << >>)
  \o (IF u.fragment.t = "str" THEN << "#" >> \o u.fragment.s ELSE << >>)

(***************************************************************************)
(* URL resolver                                                            *)
(***************************************************************************)

S_httpSlashes  == << "h", "t", "t", "p", ":", "/", "/" >>
S_httpsSlashes == << "h", "t", "t", "p", "s", ":", "/", "/" >>

\* baseUrl.substring(0, baseUrl.lastIndexOf('/') + 1)
BaseDir(baseUrl) == substring0(baseUrl, lastIndexOf(baseUrl, "/") + 1)

\* resolveUrl going straight to its last resort when the base does not parse
resolveUrl_LastResort(baseUrl, targetUrl) ==
  IF startsWith(targetUrl, S_httpSlashes) \/ startsWith(targetUrl, S_httpsSlashes)
  THEN targetUrl
  ELSE
    LET baseUrlObj == NewURL(baseUrl)
    IN  IF ~baseUrlObj.ok THEN targetUrl
        ELSE IF startsWith(targetUrl, << "/", "/" >>) THEN Protocol(baseUrlObj) \o targetUrl
        ELSE IF startsWith(targetUrl, << "/" >>)
             THEN Protocol(baseUrlObj) \o << "/", "/" >> \o baseUrlObj.host \o targetUrl
        ELSE LET r == NewURLWithBase(targetUrl, BaseDir(baseUrl))
             IN  IF r.ok THEN Href(r) ELSE BaseDir(baseUrl) \o targetUrl

\* ProxyService.resolveUrl
resolveUrl(baseUrl, targetUrl) ==
  IF startsWith(targetUrl, S_httpSlashes) \/ startsWith(targetUrl, S_httpsSlashes)
  THEN targetUrl
  ELSE
    LET baseUrlObj == NewURL(baseUrl)
        fallback   == BaseDir(baseUrl) \o targetUrl
    IN  IF ~baseUrlObj.ok THEN fallback
        ELSE IF startsWith(targetUrl, << "/", "/" >>) THEN Protocol(baseUrlObj) \o targetUrl
        ELSE IF startsWith(targetUrl, << "/" >>)
             THEN Protocol(baseUrlObj) \o << "/", "/" >> \o baseUrlObj.host \o targetUrl
        ELSE LET r == NewURLWithBase(targetUrl, BaseDir(baseUrl))
             IN  IF r.ok THEN Href(r) ELSE fallback

(***************************************************************************)
(* Manifest rewriter                                                       *)
(***************************************************************************)

Quotes == { "\"", "'" }

S_uri == << "u", "r", "i" >>

\* The regular expression /URI\s*=\s*["']([^"']+)["']/i tried at s[i]: from is
\* the start of the match, to its last character, text the match, cap the
\* captured group and dq whether the match holds a double quote. Nothing in the pattern can
\* backtrack to another match at the same start.
UriMatchAt(s, i) ==
  LET j == SkipWs(s, i + 3)
      k == SkipWs(s, j + 1)
      e == IndexOfAny(s, k + 1, Quotes)
  IN  IF /\ StartsWithAt(ToLower(s), S_uri, i)
         /\ j <= Len(s) /\ s[j] = "="
         /\ k <= Len(s) /\ s[k] \in Quotes
         /\ e <= Len(s) /\ e > k + 1
      THEN [ok |-> TRUE, from |-> i, to |-> e, text |-> SubSeq(s, i, e),
            cap |-> SubSeq(s, k + 1, e - 1), dq |-> s[k] = "\"" \/ s[e] = "\""]
      ELSE [ok |-> FALSE]

\* leftmost match at or after s[from]
FirstUriMatch(s, from) ==
  IF \E i \in from..Len(s) : UriMatchAt(s, i).ok
  THEN UriMatchAt(s, CHOOSE i \in from..Len(s) :
                       UriMatchAt(s, i).ok /\ \A j \in from..(i - 1) : ~UriMatchAt(s, j).ok)
  ELSE [ok |-> FALSE]

\* ProxyService.hasUriAttribute
hasUriAttribute(line) == FirstUriMatch(line, 1).ok

\* the replacement of one match, resolving the whole match instead of the
\* captured group
UriReplacement_WholeMatch(m, baseUrl, headers) ==
  LET resolvedUrl == resolveUrl(baseUrl, m.text)
      proxiedUrl  == createProxyUrl(resolvedUrl, headers)
      quote       == IF m.dq THEN "\"" ELSE "'"
  IN  << "U", "R", "I", "=", quote >> \o proxiedUrl \o << quote >>

\* the replacement of one match: URI=<quote><proxy URL><quote>
UriReplacement(m, baseUrl, headers) ==
  LET resolvedUrl == resolveUrl(baseUrl, m.cap)
      proxiedUrl  == createProxyUrl(resolvedUrl, headers)
      quote       == IF m.dq THEN "\"" ELSE "'"
  IN  << "U", "R", "I", "=", quote >> \o proxiedUrl \o << quote >>

\* line.replace(/.../gi, ...) from s[from] on
RECURSIVE ReplaceUriFrom(_, _, _, _)
ReplaceUriFrom(s, from, baseUrl, headers) ==
  LET m == FirstUriMatch(s, from)
  IN  IF ~m.ok THEN Drop(s, from - 1)
      ELSE SubSeq(s, from, m.from - 1) \o UriReplacement(m, baseUrl, headers)
           \o ReplaceUriFrom(s, m.to + 1, baseUrl, headers)

\* ProxyService.rewriteTagAttributes
rewriteTagAttributes(line, baseUrl, headers) == ReplaceUriFrom(line, 1, baseUrl, headers)

\* /^[a-zA-Z0-9_-]+\.[a-zA-Z0-9]+/
BareNameExt(line) ==
  LET n == IndexOfAny(line, 1, Chars \ (Alnum \cup { "_", "-" }))
  IN  n > 1 /\ n + 1 <= Len(line) /\ line[n] = "." /\ line[n + 1] \in Alnum

UrlLineMarkers ==
  { << ".", "t", "s" >>, << ".", "m", "3", "u", "8" >>, << ".", "m", "p", "4" >>,
    << ".", "m", "4", "s" >>, << ".", "w", "e", "b", "m" >>, << ".", "v", "t", "t" >>,
    << ".", "k", "e", "y" >>, << "/" >> }

\* isUrlLine taking every line for a URL
isUrlLine_Always(line) == TRUE

\* ProxyService.isUrlLine
isUrlLine(line) ==
  \/ startsWith(line, S_httpSlashes) \/ startsWith(line, S_httpsSlashes)
  \/ startsWith(line, << "/", "/" >>)
  \/ startsWith(line, << "/" >>)
  \/ \E mk \in UrlLineMarkers : includes(line, mk)
  \/ BareNameExt(line)

\* the body of the loop without the indentation of a rewritten URL line
RewriteLine_NoIndent(line, baseUrl, headers) ==
  LET trimmedLine == trim(line)
  IN  IF startsWith(line, << "#" >>) /\ hasUriAttribute(line)
        THEN rewriteTagAttributes(line, baseUrl, headers)
      ELSE IF startsWith(line, << "#" >>) \/ trimmedLine = << >> THEN line
      ELSE IF isUrlLine(trimmedLine)
        THEN createProxyUrl(resolveUrl(baseUrl, trimmedLine), headers)
      ELSE line

\* the body of the loop of rewriteManifest, for one line
RewriteLine(line, baseUrl, headers) ==
  LET trimmedLine == trim(line)
  IN  IF startsWith(line, << "#" >>) /\ hasUriAttribute(line)
        THEN rewriteTagAttributes(line, baseUrl, headers)
      ELSE IF startsWith(line, << "#" >>) \/ trimmedLine = << >> THEN line
      ELSE IF isUrlLine(trimmedLine)
        THEN LET resolvedUrl == resolveUrl(baseUrl, trimmedLine)
                 proxiedUrl  == createProxyUrl(resolvedUrl, headers)
                 indent      == substring0(line, LeadingWs(line))
             IN  indent \o proxiedUrl
      ELSE line

\* rewriteManifest minting its proxy URLs without the headers
rewriteManifest_NoHeaders(content, baseUrl, headers) ==
  LET lines == split(content, "\n")
  IN  join([ i \in 1..Len(lines) |-> RewriteLine(lines[i], baseUrl, Obj(<< >>)) ], << "\n" >>)

\* ProxyService.rewriteManifest
rewriteManifest(content, baseUrl, headers) ==
  LET lines == split(content, "\n")
  IN  join([ i \in 1..Len(lines) |-> RewriteLine(lines[i], baseUrl, headers) ], << "\n" >>)

(***************************************************************************)
(* Stream classification, after the ProxyService constructor and           *)
(* shouldStream. A pattern is kept by its form and its extension: the      *)
(* default literals are written /\\.mp4($|\\?)/, which reads: a backslash, *)
(* any character but a line terminator, "mp4", and then a group that       *)
(* matches the empty text; a pattern written /\.mp4($|\?)/ reads: ".mp4"   *)
(* at the end of the text or before "?". Both are compiled with flag i.    *)
(***************************************************************************)

\* a RegExp object: what it matches, its g flag and its lastIndex; the
\* literals of the source carry no flag
BackslashPattern(ext) == [form |-> "backslash", ext |-> ext, global |-> FALSE, lastIndex |-> 0]
DotPattern(ext)       == [form |-> "dot", ext |-> ext, global |-> FALSE, lastIndex |-> 0]

defaultPatterns ==
  << BackslashPattern(<< "m", "p", "4" >>), BackslashPattern(<< "m", "k", "v" >>),
     BackslashPattern(<< "w", "e", "b", "m" >>), BackslashPattern(<< "a", "v", "i" >>),
     BackslashPattern(<< "m", "o", "v" >>) >>

\* new RegExp(pattern, 'i'): a new object of the same source whose flags are
\* the given ones, so a g flag of the argument is dropped and lastIndex is 0
RegExp_new(pattern) == [pattern EXCEPT !.global = FALSE, !.lastIndex = 0]

\* a constructor that keeps the RegExp objects it is given as they are
ProxyService_new_KeepObjects(patterns) ==
  IF patterns = None THEN defaultPatterns ELSE patterns.v \o defaultPatterns

\* the constructor of ProxyService: streamPatterns is None when not provided
ProxyService_new(patterns) ==
  LET given == IF patterns = None THEN defaultPatterns ELSE patterns.v \o defaultPatterns
  IN  [i \in 1..Len(given) |-> RegExp_new(given[i])]

\* where pattern.test begins to look: a RegExp with the g flag begins at its
\* lastIndex
TestFrom(pattern) == IF pattern.global THEN pattern.lastIndex + 1 ELSE 1

\* the pattern matches s from position i on
MatchesAt(pattern, s, i) ==
  IF pattern.form = "backslash"
  THEN /\ s[i] = "\\"
       /\ i + 1 <= Len(s) /\ s[i + 1] \notin { "\n", "\r" }
       /\ StartsWithAt(ToLower(s), pattern.ext, i + 2)
  ELSE /\ s[i] = "."
       /\ StartsWithAt(ToLower(s), pattern.ext, i + 1)
       /\ LET e == i + 1 + Len(pattern.ext)
          IN  e = Len(s) + 1 \/ s[e] = "?"

\* pattern.test(s)
RegExpTest(pattern, s) ==
  LET low == ToLower(s)
  IN  IF pattern.form = "backslash"
      THEN \E i \in TestFrom(pattern)..Len(s) :
             /\ s[i] = "\\"
             /\ i + 1 <= Len(s) /\ s[i + 1] \notin { "\n", "\r" }
             /\ StartsWithAt(low, pattern.ext, i + 2)
      ELSE \E i \in TestFrom(pattern)..Len(s) :
             /\ s[i] = "."
             /\ StartsWithAt(low, pattern.ext, i + 1)
             /\ LET e == i + 1 + Len(pattern.ext)
                IN  e = Len(s) + 1 \/ s[e] = "?"

\* the RegExp object after pattern.test(s): without the g flag it is as it
\* was; with it, lastIndex is the end of the match, or 0 after a failure
RegExpAfterTest(pattern, s) ==
  IF ~pattern.global THEN pattern
  ELSE IF ~RegExpTest(pattern, s) THEN [pattern EXCEPT !.lastIndex = 0]
  ELSE LET i == CHOOSE k \in TestFrom(pattern)..Len(s) :
                  /\ MatchesAt(pattern, s, k)
                  /\ \A j \in TestFrom(pattern)..(k - 1) : ~MatchesAt(pattern, s, j)
           core == IF pattern.form = "backslash" THEN i + 1 + Len(pattern.ext)
                   ELSE i + Len(pattern.ext)
           tail == IF core < Len(s) /\ s[core + 1] = (IF pattern.form = "backslash" THEN "\\" ELSE "?")
                   THEN 1 ELSE 0
       IN  [pattern EXCEPT !.lastIndex = core + tail]

\* ProxyService.shouldStream
shouldStream(patterns, url) ==
  \E i \in 1..Len(patterns) : RegExpTest(patterns[i], url)

\* the patterns after shouldStream(url): some() calls test on the patterns in
\* order up to the first that matches
PatternsAfterShouldStream(patterns, url) ==
  [i \in 1..Len(patterns) |->
     IF \E j \in 1..(i - 1) : RegExpTest(patterns[j], url)
     THEN patterns[i]
     ELSE RegExpAfterTest(patterns[i], url)]

\* ProxyService.getMimeType; /\.ass|\.ssa$/i reads: ".ass" anywhere, or ".ssa"
\* at the end
getMimeType(url) ==
  LET low == ToLower(url)
      ends(x) == endsWith(low, x)
  IN  CASE ends(<< ".", "v", "t", "t" >>) -> << "t", "e", "x", "t", "/", "v", "t", "t" >>
        [] ends(<< ".", "s", "r", "t" >>) -> << "t", "e", "x", "t", "/", "p", "l", "a", "i", "n" >>
        [] includes(low, << ".", "a", "s", "s" >>) \/ ends(<< ".", "s", "s", "a" >>) -> << "t", "e", "x", "t", "/", "p", "l", "a", "i", "n" >>
        [] ends(<< ".", "m", "3", "u", "8" >>) -> << "a", "p", "p", "l", "i", "c", "a", "t", "i", "o", "n", "/", "x", "-", "m", "p", "e", "g", "U", "R", "L" >>
        [] ends(<< ".", "m", "p", "d" >>) -> << "a", "p", "p", "l", "i", "c", "a", "t", "i", "o", "n", "/", "d", "a", "s", "h", "+", "x", "m", "l" >>
        [] ends(<< ".", "m", "p", "4" >>) -> << "v", "i", "d", "e", "o", "/", "m", "p", "4" >>
        [] ends(<< ".", "m", "k", "v" >>) -> << "v", "i", "d", "e", "o", "/", "x", "-", "m", "a", "t", "r", "o", "s", "k", "a" >>
        [] ends(<< ".", "w", "e", "b", "m" >>) -> << "v", "i", "d", "e", "o", "/", "w", "e", "b", "m" >>
        [] ends(<< ".", "a", "v", "i" >>) -> << "v", "i", "d", "e", "o", "/", "x", "-", "m", "s", "v", "i", "d", "e", "o" >>
        [] ends(<< ".", "m", "o", "v" >>) -> << "v", "i", "d", "e", "o", "/", "q", "u", "i", "c", "k", "t", "i", "m", "e" >>
        [] ends(<< ".", "t", "s" >>) -> << "v", "i", "d", "e", "o", "/", "m", "p", "2", "t" >>
        [] OTHER -> << "a", "p", "p", "l", "i", "c", "a", "t", "i", "o", "n", "/", "o", "c", "t", "e", "t", "-", "s", "t", "r", "e", "a", "m" >>

\* ProxyService.isManifestFile
isManifestFile(contentType, url) ==
  \/ includes(contentType, << "a", "p", "p", "l", "i", "c", "a", "t", "i", "o", "n", "/", "v", "n", "d", ".", "a", "p", "p", "l", "e", ".", "m", "p", "e", "g", "u", "r", "l" >>)
  \/ includes(contentType, << "a", "p", "p", "l", "i", "c", "a", "t", "i", "o", "n", "/", "x", "-", "m", "p", "e", "g", "u", "r", "l" >>)
  \/ includes(contentType, << "a", "p", "p", "l", "i", "c", "a", "t", "i", "o", "n", "/", "d", "a", "s", "h", "+", "x", "m", "l" >>)
  \/ includes(contentType, << "t", "e", "x", "t", "/", "p", "l", "a", "i", "n" >>) /\ includes(url, << ".", "m", "3", "u", "8" >>)
  \/ endsWith(url, << ".", "m", "3", "u", "8" >>)
  \/ endsWith(url, << ".", "m", "p", "d" >>)

(***************************************************************************)
(* Bounded input sets                                                      *)
(***************************************************************************)

\* all sequences over alphabet A of length lo .. hi
SeqsBetween(A, lo, hi) == UNION { [1..n -> A] : n \in lo..hi }

\* longest descriptor url of the codec study
MaxUrlLen == 3

\* characters that exercise the escaping of both encodings
CodecAlphabet == { "a", "%", "\"", "\\", "4" }

CodecUrls == SeqsBetween(CodecAlphabet, 1, MaxUrlLen)

H_Referer   == << "R", "e", "f", "e", "r", "e", "r" >>
H_UserAgent == << "U", "s", "e", "r", "-", "A", "g", "e", "n", "t" >>
H_range     == << "r", "a", "n", "g", "e" >>
H_Range     == << "R", "a", "n", "g", "e" >>

CodecHeaders ==
  { Headers(<< >>),
    Headers(<< << H_Referer, << "/", "a", "?", "q", "=", "%", "2", "0" >> >> >>),
    Headers(<< << H_UserAgent, << "x", " ", "\"", "y", "\"", "\\" >> >>,
               << << "a", "\"", "b" >>, << >> >> >>) }

UnsetConfig == [baseUrl |-> Undef, host |-> Undef, port |-> 0, protocol |-> Undef]

\* configurations a ProviderRegistry is constructed with
ProxyConfigs ==
  { UnsetConfig,
    [baseUrl |-> Str(<< "h", "t", "t", "p", ":", "/", "/", "p", ":", "8", "0" >>),
     host |-> Undef, port |-> 0, protocol |-> Undef],
    [baseUrl |-> Undef, host |-> Str(<< "p" >>), port |-> 3000, protocol |-> Str(S_https)] }

Minters == { "ProxyService.createProxyUrl", "BaseProvider.createProxyUrl",
             "BaseProvider.createRelativeProxyUrl" }

IdleRequest ==
  /\ streamPatterns = ProxyService_new(None)
  /\ phase = "idle"
  /\ request = None
  /\ pending = None
  /\ trace = << >>
  /\ upstream = << >>
  /\ upResp = None
  /\ result = None
  /\ reply = << >>
  /\ conn = "none"

(***************************************************************************)
(* Codec study: mint proxy URLs for one pair, decode their tokens          *)
(***************************************************************************)

CodecInit ==
  /\ proxyConfig = UnsetConfig
  /\ fin \in [url : CodecUrls, headers : CodecHeaders]
  /\ fout = [minted |-> << >>, decoded |-> None]
  /\ IdleRequest

\* BaseProvider.setProxyConfig
setProxyConfig(config) ==
  /\ proxyConfig' = config
  /\ UNCHANGED << fin, fout >>
  /\ UNCHANGED reqVars

Mint(minter, config, url, headers) ==
  CASE minter = "ProxyService.createProxyUrl" -> createProxyUrl(url, headers)
    [] minter = "BaseProvider.createProxyUrl" -> BaseProvider_createProxyUrl(config, url, headers)
    [] minter = "BaseProvider.createRelativeProxyUrl" -> createRelativeProxyUrl(url, headers)

CodecMint(minter) ==
  /\ Len(fout.minted) < 2
  /\ fout' = [fout EXCEPT !.minted = Append(@, Mint(minter, proxyConfig, fin.url, fin.headers))]
  /\ UNCHANGED << proxyConfig, fin >>
  /\ UNCHANGED reqVars

CodecDecode(i) ==
  /\ i \in 1..Len(fout.minted)
  /\ fout.decoded = None
  /\ fout' = [fout EXCEPT !.decoded = decodeProxyData(DataToken(fout.minted[i]))]
  /\ UNCHANGED << proxyConfig, fin >>
  /\ UNCHANGED reqVars

\* the argument of the ProviderRegistry constructor: none, or a
\* ProviderRegistryConfig
RegistryConfigs ==
  { None } \cup { Ret([proxyBaseUrl |-> c.baseUrl, host |-> c.host, port |-> c.port,
                       protocol |-> c.protocol]) : c \in ProxyConfigs }

\* new ProviderRegistry(config)
ProviderRegistry_new(config) ==
  IF config # None
  THEN setProxyConfig([baseUrl |-> config.v.proxyBaseUrl, host |-> config.v.host,
                       port |-> config.v.port, protocol |-> config.v.protocol])
  ELSE UNCHANGED vars

CodecNext ==
  \/ \E m \in Minters : CodecMint(m)
  \/ \E i \in 1..2 : CodecDecode(i)
  \/ \E c \in ProxyConfigs : Len(fout.minted) = 1 /\ setProxyConfig(c)
  \/ \E c \in RegistryConfigs : Len(fout.minted) = 1 /\ ProviderRegistry_new(c)

SpecCodec == CodecInit /\ [][CodecNext]_vars

\* C1: decoding the data token of a minted proxy URL gives back the url and
\* the headers it was minted from, whichever of the three minting functions
\* made it, and every proxy URL minted from one pair carries the same token.
C1_RoundTrip ==
  /\ fout.decoded # None =>
       /\ fout.decoded.ok
       /\ fout.decoded.v.t = "obj"
       /\ GetKey(fout.decoded.v.m, K_url) = Str(fin.url)
       /\ GetKey(fout.decoded.v.m, K_headers) = fin.headers
  /\ \A i, j \in 1..Len(fout.minted) : DataToken(fout.minted[i]) = DataToken(fout.minted[j])

\* a url with a percent sign and a quote was minted twice, under two base
\* URLs, and decoded
C1_Witness ==
  /\ Len(fout.minted) = 2
  /\ fout.minted[1] # fout.minted[2]
  /\ fout.decoded # None
  /\ \E i \in 1..Len(fin.url) : fin.url[i] = "%"
  /\ \E i \in 1..Len(fin.url) : fin.url[i] = "\""
  /\ fin.headers # Headers(<< >>)

(***************************************************************************)
(* Resolver study: resolveUrl on one base URL and one candidate            *)
(***************************************************************************)

\* longest generated candidate
MaxCandLen == 4

ResolveAlphabet == { "s", ".", "/" }

U_acom == << "a", ".", "c", "o", "m" >>

\* "https://a.com/x/y.m3u8"
Base_xy == S_httpsSlashes \o U_acom \o << "/", "x", "/", "y", ".", "m", "3", "u", "8" >>
\* "http://a.com:8080/y.m3u8"
Base_port == S_httpSlashes \o U_acom \o << ":", "8", "0", "8", "0", "/", "y", ".", "m", "3", "u", "8" >>
\* "https://a.com/x/"
Base_dir == S_httpsSlashes \o U_acom \o << "/", "x", "/" >>
\* "https://a.com"
Base_host == S_httpsSlashes \o U_acom
\* "a.com/x/y" and "", which new URL rejects
Base_noScheme == U_acom \o << "/", "x", "/", "y" >>
Base_empty == << >>

WellFormedBases == { Base_xy, Base_port, Base_dir, Base_host }
ResolveBases == WellFormedBases \cup { Base_noScheme, Base_empty }

Cand_seg1 == << "s", "e", "g", "1", ".", "t", "s" >>
Cand_z    == << "/", "z", ".", "t", "s" >>
Cand_cdn  == << "/", "/", "c", "d", "n", ".", "c", "o", "m", "/", "z", ".", "t", "s" >>
Cand_http  == S_httpSlashes \o << "b", "/", ".", ".", "/", "s" >>
Cand_https == S_httpsSlashes \o << "b", "/", "s" >>

ResolveCands ==
  SeqsBetween(ResolveAlphabet, 1, MaxCandLen)
    \cup { Cand_seg1, Cand_z, Cand_cdn, Cand_http, Cand_https }

ResolveInit ==
  /\ proxyConfig = UnsetConfig
  /\ fin \in [base : ResolveBases, cand : ResolveCands]
  /\ fout = None
  /\ IdleRequest

Resolve ==
  /\ fout = None
  /\ fout' = Ret(resolveUrl(fin.base, fin.cand))
  /\ UNCHANGED << proxyConfig, fin >>
  /\ UNCHANGED reqVars

ResolveNext == Resolve

SpecResolve == ResolveInit /\ [][ResolveNext]_vars

\* baseUrl up to and including its last "/", empty when it has none
ContractBaseDir(base) ==
  IF \E i \in 1..Len(base) : base[i] = "/"
  THEN SubSeq(base, 1, CHOOSE i \in 1..Len(base) : base[i] = "/" /\ \A j \in (i + 1)..Len(base) : base[j] # "/")
  ELSE << >>

\* C17: resolveUrl returns a string for every base and candidate, and for a
\* candidate that does not begin with http:// or https:// and a base that
\* new URL rejects it returns the base up to and including its last "/"
\* followed by the candidate.
C17_ResolveTotal ==
  fout # None =>
    /\ fout.ok
    /\ \A i \in 1..Len(fout.v) : fout.v[i] \in Chars
    /\ ( /\ ~startsWith(fin.cand, S_httpSlashes) /\ ~startsWith(fin.cand, S_httpsSlashes)
         /\ ~NewURL(fin.base).ok )
         => fout.v = ContractBaseDir(fin.base) \o fin.cand

\* a relative candidate was resolved against a base without a scheme
C17_Witness ==
  /\ fout # None /\ fout.ok
  /\ fin.base = Base_noScheme /\ fin.cand = Cand_seg1
  /\ fout.v = << "a", ".", "c", "o", "m", "/", "x", "/", "s", "e", "g", "1", ".", "t", "s" >>

\* What the resolver's contract makes of a well-formed absolute base URL:
\* its scheme, its scheme and host, the directory of its path.
ContractScheme(base) == SubSeq(base, 1, IndexOfAny(base, 1, { ":" }) - 1)

ContractOrigin(base) ==
  LET h == Len(ContractScheme(base)) + 4
  IN  SubSeq(base, 1, IndexOfAny(base, h, { "/", "?", "#" }) - 1)

ContractDir(base) ==
  LET o    == Len(ContractOrigin(base))
      path == SubSeq(base, o + 1, IndexOfAny(base, o + 1, { "?", "#" }) - 1)
  IN  IF path = << >> THEN << "/" >> ELSE substring0(path, lastIndexOf(path, "/") + 1)

\* RFC 3986, 5.2.4, on the segments of a path that starts with "/"
RECURSIVE RemoveDotSegments(_, _)
RemoveDotSegments(out, segs) ==
  IF segs = << >> THEN out
  ELSE IF Head(segs) = << "." >>
       THEN IF Len(segs) = 1 THEN Append(out, << >>) ELSE RemoveDotSegments(out, Tail(segs))
  ELSE IF Head(segs) = << ".", "." >>
       THEN IF Len(segs) = 1 THEN Append(Shorten(out), << >>)
            ELSE RemoveDotSegments(Shorten(out), Tail(segs))
  ELSE RemoveDotSegments(Append(out, Head(segs)), Tail(segs))

ContractResolve(base, cand) ==
  IF startsWith(cand, S_httpSlashes) \/ startsWith(cand, S_httpsSlashes) THEN cand
  ELSE IF startsWith(cand, << "/", "/" >>) THEN ContractScheme(base) \o << ":" >> \o cand
  ELSE IF startsWith(cand, << "/" >>) THEN ContractOrigin(base) \o cand
  ELSE LET segs == RemoveDotSegments(<< >>, split(Drop(ContractDir(base) \o cand, 1), "/"))
       IN  ContractOrigin(base) \o Concat([ i \in 1..Len(segs) |-> << "/" >> \o segs[i] ])

\* C4: against a well-formed absolute base URL resolveUrl returns an absolute
\* candidate unchanged, prefixes the base's scheme to a "//" candidate, the
\* base's scheme and host to a "/" candidate, and resolves any other candidate
\* against the directory of the base with "." and ".." segments normalized.
C4_Resolve ==
  (fout # None /\ fin.base \in WellFormedBases) => fout.v = ContractResolve(fin.base, fin.cand)

\* the same, for base URLs that have a path
C4_ResolveWithPath ==
  (fout # None /\ fin.base \in WellFormedBases \ { Base_host }) =>
     fout.v = ContractResolve(fin.base, fin.cand)

\* the three resolutions the specification lists
C4_Examples ==
  (fout # None /\ fin.base = Base_xy) =>
     /\ fin.cand = Cand_seg1 => fout.v = S_httpsSlashes \o U_acom \o << "/", "x", "/" >> \o Cand_seg1
     /\ fin.cand = Cand_z => fout.v = S_httpsSlashes \o U_acom \o Cand_z
     /\ fin.cand = Cand_cdn => fout.v = << "h", "t", "t", "p", "s", ":" >> \o Cand_cdn

(***************************************************************************)
(* Rewriter study: rewriteManifest on one manifest                         *)
(***************************************************************************)

\* most lines of a manifest
MaxLines == 2

\* a directive without URI attribute
Line_extm3u == << "#", "E", "X", "T", "M", "3", "U" >>

\* a blank line
Line_blank == <<  >>

\* a relative URL with a media extension
Line_seg == << "s", "e", "g", "1", ".", "t", "s" >>

\* an indented root-relative URL
Line_indented == << " ", " ", "/", "z", ".", "t", "s" >>

\* an absolute URL
Line_abs == << "h", "t", "t", "p", "s", ":", "/", "/", "o", ".", "c", "o", "m", "/", "s" >>

\* text that fails the URL-likeness test
Line_opaque == << "s", "e", "g", "1" >>

\* the directive of the specification
Line_key == << "#", "E", "X", "T", "-", "X", "-", "K", "E", "Y", ":", "M", "E", "T", "H", "O", "D", "=", "A", "E", "S", "-", "1", "2", "8", ",", "U", "R", "I", "=", "\"", "k", "e", "y", ".", "b", "i", "n", "\"" >>

\* a single-quoted URI attribute followed by another attribute
Line_map == << "#", "M", ":", "U", "R", "I", "=", "'", "i", ".", "m", "p", "4", "'", ",", "B", "=", "\"", "1", "@", "0", "\"" >>

\* two URI attributes, the first in lower case with spaces around =
Line_two == << "#", "K", ":", "u", "r", "i", " ", "=", " ", "\"", "k", "\"", ",", "U", "R", "I", "=", "\"", "j", "\"" >>

\* a URI attribute whose value holds an apostrophe
Line_apos == << "#", "K", ":", "U", "R", "I", "=", "\"", "i", "t", "'", "s", ".", "k", "e", "y", "\"" >>

\* an indented directive
Line_indentedKey == << " ", "#", "K", ":", "U", "R", "I", "=", "\"", "k", ".", "k", "e", "y", "\"" >>

\* a URL line that ends in a carriage return
Line_crlf == << "s", "e", "g", "1", ".", "t", "s", "\r" >>

\* a directive whose URI attribute is not quoted
Line_unquoted == << "#", "K", ":", "U", "R", "I", "=", "k", ".", "k", "e", "y" >>

\* a line of white space
Line_spaces == << " ", "\t" >>

ManifestLines ==
  { Line_extm3u, Line_blank, Line_seg, Line_indented, Line_abs, Line_opaque, Line_key,
    Line_map, Line_two, Line_apos, Line_indentedKey, Line_crlf, Line_unquoted, Line_spaces }

Manifests == { join(ls, << "\n" >>) : ls \in SeqsBetween(ManifestLines, 1, MaxLines) }

\* the headers of the descriptor whose response is rewritten
RewriteHeaders ==
  { Headers(<< << H_Referer, << "/", "r" >> >> >>),
    Headers(<< << H_UserAgent, << "i", "t", "'", "s" >> >> >>) }

RewriteInit ==
  /\ proxyConfig = UnsetConfig
  /\ fin \in [content : Manifests, baseUrl : { Base_xy, Base_port }, headers : RewriteHeaders]
  /\ fout = None
  /\ IdleRequest

Rewrite ==
  /\ fout = None
  /\ fout' = Ret(rewriteManifest(fin.content, fin.baseUrl, fin.headers))
  /\ UNCHANGED << proxyConfig, fin >>
  /\ UNCHANGED reqVars

RewriteNext == Rewrite

SpecRewrite == RewriteInit /\ [][RewriteNext]_vars

InLines  == split(fin.content, "\n")
OutLines == split(fout.v, "\n")

\* u is a proxy URL whose token decodes
IsProxyUrl(u) ==
  startsWith(u, ProxyPath) /\ decodeProxyData(DataToken(u)).ok

\* u is a proxy URL whose token decodes to a descriptor of url
DecodesTo(u, url) ==
  /\ startsWith(u, ProxyPath)
  /\ LET d == decodeProxyData(DataToken(u))
     IN  d.ok /\ d.v.t = "obj" /\ GetKey(d.v.m, K_url) = Str(url)

\* A quoted URI attribute as a reader of the manifest finds it at s[i]: the
\* name, "=", a quote and the value up to the next quote of the same kind.
QuotedUriAt(s, i) ==
  LET j == SkipWs(s, i + 3)
      k == SkipWs(s, j + 1)
      e == IF k <= Len(s) THEN IndexOfAny(s, k + 1, { s[k] }) ELSE Len(s) + 1
  IN  IF /\ StartsWithAt(ToLower(s), S_uri, i)
         /\ j <= Len(s) /\ s[j] = "="
         /\ k <= Len(s) /\ s[k] \in Quotes
         /\ e <= Len(s) /\ e > k + 1
      THEN [ok |-> TRUE, open |-> k, to |-> e, value |-> SubSeq(s, k + 1, e - 1)]
      ELSE [ok |-> FALSE]

\* positions of the quoted URI attributes of s, none inside the value of another
RECURSIVE QuotedUriFrom(_, _)
QuotedUriFrom(s, from) ==
  IF \E i \in from..Len(s) : QuotedUriAt(s, i).ok
  THEN LET i == CHOOSE k \in from..Len(s) :
                  QuotedUriAt(s, k).ok /\ \A j \in from..(k - 1) : ~QuotedUriAt(s, j).ok
       IN  { i } \cup QuotedUriFrom(s, QuotedUriAt(s, i).to + 1)
  ELSE { }

\* C2: in the output of rewriteManifest every URL reference is a proxy URL
\* whose token decodes: every line that names a resource (it is not blank,
\* does not begin with "#" and is URL-like) and every quoted URI attribute
\* value on a line that begins with "#".
C2_NoRawUrl ==
  fout # None =>
    \A i \in 1..Len(OutLines) :
      /\ (i <= Len(InLines) /\ ~startsWith(InLines[i], << "#" >>) /\ isUrlLine(trim(InLines[i])))
           => IsProxyUrl(trim(OutLines[i]))
      /\ startsWith(OutLines[i], << "#" >>)
           => \A a \in QuotedUriFrom(OutLines[i], 1) : IsProxyUrl(QuotedUriAt(OutLines[i], a).value)

\* The output line o carries, where the input line n has its URI matches from
\* n[fn] on, proxy URLs that decode to the resolved captured values; o is read
\* from o[fo] on.
RECURSIVE TagLineDecodes(_, _, _, _)
TagLineDecodes(n, o, fn, fo) ==
  LET m == FirstUriMatch(n, fn)
  IN  IF ~m.ok THEN Drop(n, fn - 1) = Drop(o, fo - 1)
      ELSE
        LET q == fo + (m.from - fn) + 4   \* where o has the opening quote
        IN  /\ SubSeq(o, fo, q - 5) = SubSeq(n, fn, m.from - 1)
            /\ q <= Len(o) /\ o[q] \in Quotes
            /\ \E j \in (q + 1)..Len(o) :
                 /\ o[j] = o[q]
                 /\ DecodesTo(SubSeq(o, q + 1, j - 1), resolveUrl(fin.baseUrl, m.cap))
                 /\ TagLineDecodes(n, o, m.to + 1, j + 1)

\* C3: every proxy URL that rewriteManifest emits decodes to a descriptor
\* whose url is resolveUrl(baseUrl, target), the target being the trimmed
\* input line, or the captured value of the URI attribute it replaces.
C3_EmittedDecodes ==
  fout # None =>
    /\ Len(OutLines) = Len(InLines)
    /\ \A i \in 1..Len(OutLines) :
         LET n == InLines[i]
             o == OutLines[i]
         IN  /\ (~startsWith(o, << "#" >>) /\ startsWith(trim(o), ProxyPath))
                  => DecodesTo(trim(o), resolveUrl(fin.baseUrl, trim(n)))
             /\ (startsWith(n, << "#" >>) /\ hasUriAttribute(n))
                  => TagLineDecodes(n, o, 1, 1)

\* a manifest with a URL line and a directive with a URI attribute was rewritten
C3_Witness ==
  /\ fout # None
  /\ \E i \in 1..Len(InLines) : InLines[i] = Line_indented /\ OutLines[i] # InLines[i]
  /\ \E i \in 1..Len(InLines) : InLines[i] \in { Line_key, Line_map, Line_two }
                                /\ OutLines[i] # InLines[i]

\* The contract of the tag rewriter on a line: each value of a quoted
\* URI="..." or URI='...' attribute becomes the proxy URL of the resolved
\* value, and nothing else changes.
RECURSIVE ContractTagLine(_, _)
ContractTagLine(s, from) ==
  LET at(i) == StartsWithAt(s, << "U", "R", "I", "=" >>, i) /\ QuotedUriAt(s, i).ok
  IN  IF \E i \in from..Len(s) : at(i)
      THEN LET i == CHOOSE k \in from..Len(s) : at(k) /\ \A j \in from..(k - 1) : ~at(j)
               a == QuotedUriAt(s, i)
           IN  SubSeq(s, from, a.open)
               \o createProxyUrl(resolveUrl(fin.baseUrl, a.value), fin.headers)
               \o << s[a.to] >>
               \o ContractTagLine(s, a.to + 1)
      ELSE Drop(s, from - 1)

HasContractAttr(s) ==
  \E i \in 1..Len(s) : StartsWithAt(s, << "U", "R", "I", "=" >>, i) /\ QuotedUriAt(s, i).ok

\* C5: on a line that begins with "#" and carries quoted URI attributes,
\* every attribute value is replaced by the proxy URL of the resolved value,
\* with the quote it had, and every other character of the line is kept.
C5_TagLine ==
  fout # None =>
    \A i \in 1..Len(InLines) :
      (startsWith(InLines[i], << "#" >>) /\ HasContractAttr(InLines[i]))
        => (i <= Len(OutLines) /\ OutLines[i] = ContractTagLine(InLines[i], 1))

\* the directive of the specification keeps its double quotes and its METHOD
\* attribute
C5_Example ==
  fout # None =>
    \A i \in 1..Len(InLines) :
      InLines[i] = Line_key =>
        OutLines[i] = SubSeq(Line_key, 1, 31)
                      \o createProxyUrl(resolveUrl(fin.baseUrl, << "k", "e", "y", ".", "b", "i", "n" >>),
                                        fin.headers)
                      \o << "\"" >>


(***************************************************************************)
(* The proxy endpoint: ProxyController.proxy, ProxyService.proxyRequest    *)
(* and the error handler                                                   *)
(***************************************************************************)

\* the decimal text of an array index below 100
IndexKey(i) ==
  IF i < 10 THEN << CharOf(48 + i) >>
  ELSE << CharOf(48 + (i \div 10)), CharOf(48 + (i % 10)) >>

\* the own enumerable properties that { ...v } copies
OwnProps(v) ==
  CASE v.t = "obj" -> v.m
    [] v.t = "str" -> [ i \in 1..Len(v.s) |-> [k |-> IndexKey(i - 1), v |-> Str(<< v.s[i] >>)] ]
    [] v.t = "arr" -> [ i \in 1..Len(v.a) |-> [k |-> IndexKey(i - 1), v |-> v.a[i]] ]
    [] OTHER -> << >>

\* a && { k: a } as the operand of a spread
SpreadIf(k, a) == IF Truthy(a) THEN << [k |-> k, v |-> a] >> ELSE << >>

\* a || b
OrElse(a, b) == IF Truthy(a) THEN a ELSE b

\* the reply of an error: status, error code and the url of the details
ErrorReply(status, code, url) ==
  [kind |-> "error", status |-> status, code |-> code, url |-> url,
   headers |-> << >>, type |-> Undef, body |-> Undef]

\* the check of the data parameter left out
MissingData_Never(data) == FALSE

\* ProxyController.proxy: if (!data)
MissingData(data) == ~Truthy(data)

\* request.headers: the header lines of the client with their names in lower
\* case, as the HTTP server hands them to the handler
IncomingHeaders(rawHeaders) ==
  [ i \in 1..Len(rawHeaders) |-> [k |-> ToLower(rawHeaders[i].k), v |-> rawHeaders[i].v] ]

\* InjectHeaders without the request's range headers
InjectHeaders_NoRange(proxyDataRaw, requestHeaders) ==
  LET rawHeaders == IF proxyDataRaw.t = "obj" THEN GetKey(proxyDataRaw.m, K_headers) ELSE Undef
  IN  Obj(Spread(OwnProps(proxyDataRaw), << [k |-> K_headers, v |-> Obj(OwnProps(rawHeaders))] >>))

\* ProxyController.proxy: the descriptor with the request's range headers
InjectHeaders(proxyDataRaw, requestHeaders) ==
  LET rawHeaders == IF proxyDataRaw.t = "obj" THEN GetKey(proxyDataRaw.m, K_headers) ELSE Undef
      headers == Spread(Spread(OwnProps(rawHeaders),
                               SpreadIf(H_range, GetKey(requestHeaders, H_range))),
                        SpreadIf(H_Range, GetKey(requestHeaders, H_Range)))
  IN  Obj(Spread(OwnProps(proxyDataRaw), << [k |-> K_headers, v |-> Obj(headers)] >>))

DefaultUserAgent == << "O", "M", "S", "S", "-", "B", "a", "c", "k", "e", "n", "d", "/", "1", ".", "0" >>

\* headers of the upstream request of handleBufferedRequest
BufferedRequestHeaders(headers) ==
  Spread(OwnProps(headers),
         << [k |-> H_UserAgent,
             v |-> OrElse(GetKey(OwnProps(headers), H_UserAgent), Str(DefaultUserAgent))] >>)

\* headers of the upstream request of handleStreamingRequest
StreamingRequestHeaders(headers) ==
  LET rangeHeader == OrElse(GetKey(OwnProps(headers), H_range), GetKey(OwnProps(headers), H_Range))
  IN  Spread(BufferedRequestHeaders(headers), SpreadIf(H_Range, rangeHeader))

\* the option validateStatus of axios.get
validateStatus(status) == status < 500

AxiosError(response) == [t |-> "AxiosError", response |-> response]

\* axios.get settles: resolved with the response when validateStatus accepts
\* its status, rejected with an AxiosError that carries the response
\* otherwise, rejected with an AxiosError without response when the
\* transport failed
axiosGet(outcome) ==
  IF outcome.t = "response"
  THEN IF validateStatus(outcome.status) THEN Ret(outcome) ELSE Throw(AxiosError(outcome))
  ELSE Throw(AxiosError(None))

K_contentType   == << "c", "o", "n", "t", "e", "n", "t", "-", "t", "y", "p", "e" >>
K_cacheControl  == << "c", "a", "c", "h", "e", "-", "c", "o", "n", "t", "r", "o", "l" >>
K_contentLength == << "c", "o", "n", "t", "e", "n", "t", "-", "l", "e", "n", "g", "t", "h" >>
K_contentRange  == << "c", "o", "n", "t", "e", "n", "t", "-", "r", "a", "n", "g", "e" >>
K_acceptRanges  == << "a", "c", "c", "e", "p", "t", "-", "r", "a", "n", "g", "e", "s" >>
K_acceptRange   == << "a", "c", "c", "e", "p", "t", "-", "r", "a", "n", "g", "e" >>
K_lastModified  == << "l", "a", "s", "t", "-", "m", "o", "d", "i", "f", "i", "e", "d" >>
K_etag          == << "e", "t", "a", "g" >>

\* proxyData.url and proxyData.headers
DataUrl(proxyData)     == GetKey(proxyData.m, K_url)
DataHeaders(proxyData) == GetKey(proxyData.m, K_headers)

\* response.headers['content-type'] || ''
ResponseContentType(response) == OrElse(GetKey(response.headers, K_contentType), Str(<< >>)).s

\* handleBufferedRequest from the resolved response on, with the status it
\* reports as a parameter
BufferedResult(proxyData, response, statusCode) ==
  LET url         == DataUrl(proxyData).s
      contentType == ResponseContentType(response)
      data        == IF isManifestFile(contentType, url)
                     THEN rewriteManifest(response.data, url, DataHeaders(proxyData))
                     ELSE response.data
  IN  [data        |-> data,
       contentType |-> IF contentType # << >> THEN contentType ELSE getMimeType(url),
       statusCode  |-> statusCode,
       headers     |->
         Spread(Spread(<< [k |-> << "C", "o", "n", "t", "e", "n", "t", "-", "D", "i", "s", "p", "o", "s", "i", "t", "i", "o", "n" >>, v |-> Str(<< "i", "n", "l", "i", "n", "e" >>)],
                          [k |-> << "A", "c", "c", "e", "p", "t", "-", "R", "a", "n", "g", "e", "s" >>, v |-> Str(<< "b", "y", "t", "e", "s" >>)],
                          [k |-> << "C", "a", "c", "h", "e", "-", "C", "o", "n", "t", "r", "o", "l" >>,
                           v |-> OrElse(GetKey(response.headers, K_cacheControl),
                                        Str(<< "p", "u", "b", "l", "i", "c", ",", " ", "m", "a", "x", "-", "a", "g", "e", "=", "7", "2", "0", "0" >>))] >>,
                       SpreadIf(<< "C", "o", "n", "t", "e", "n", "t", "-", "L", "e", "n", "g", "t", "h" >>, GetKey(response.headers, K_contentLength))),
                SpreadIf(<< "C", "o", "n", "t", "e", "n", "t", "-", "R", "a", "n", "g", "e" >>, GetKey(response.headers, K_contentRange)))]

\* handleBufferedRequest reporting 200 whatever the upstream's status
handleBufferedRequest_Status200(proxyData, response) ==
  BufferedResult(proxyData, response, 200)

\* ProxyService.handleBufferedRequest, from the resolved response on
handleBufferedRequest(proxyData, response) ==
  BufferedResult(proxyData, response, response.status)

\* ProxyService.handleStreamingRequest, from the resolved response on
handleStreamingRequest(proxyData, response) ==
  LET url  == DataUrl(proxyData).s
      h(k) == GetKey(response.headers, k)
      acceptRanges == OrElse(h(K_acceptRanges), h(K_acceptRange))
  IN  [stream      |-> response.data,
       contentType |-> OrElse(h(K_contentType), Str(getMimeType(url))).s,
       statusCode  |-> response.status,
       headers     |->
         Spread(Spread(Spread(Spread(Spread(
           << [k |-> << "C", "o", "n", "t", "e", "n", "t", "-", "D", "i", "s", "p", "o", "s", "i", "t", "i", "o", "n" >>, v |-> Str(<< "i", "n", "l", "i", "n", "e", ";", " ", "f", "i", "l", "e", "n", "a", "m", "e", "=", "\"", "s", "t", "r", "e", "a", "m", "\"" >>)],
              [k |-> << "C", "a", "c", "h", "e", "-", "C", "o", "n", "t", "r", "o", "l" >>,
               v |-> OrElse(h(K_cacheControl), Str(<< "p", "u", "b", "l", "i", "c", ",", " ", "m", "a", "x", "-", "a", "g", "e", "=", "7", "2", "0", "0" >>))],
              [k |-> << "A", "c", "c", "e", "s", "s", "-", "C", "o", "n", "t", "r", "o", "l", "-", "E", "x", "p", "o", "s", "e", "-", "H", "e", "a", "d", "e", "r", "s" >>,
               v |-> Str(<< "C", "o", "n", "t", "e", "n", "t", "-", "D", "i", "s", "p", "o", "s", "i", "t", "i", "o", "n", ",", " ", "C", "o", "n", "t", "e", "n", "t", "-", "L", "e", "n", "g", "t", "h", ",", " ", "C", "o", "n", "t", "e", "n", "t", "-", "R", "a", "n", "g", "e", ",", " ", "L", "a", "s", "t", "-", "M", "o", "d", "i", "f", "i", "e", "d", ",", " ", "E", "T", "a", "g" >>)] >>,
           IF Truthy(acceptRanges)
           THEN << [k |-> << "A", "c", "c", "e", "p", "t", "-", "R", "a", "n", "g", "e", "s" >>, v |-> OrElse(acceptRanges, Str(<< "b", "y", "t", "e", "s" >>))] >>
           ELSE << >>),
           SpreadIf(<< "C", "o", "n", "t", "e", "n", "t", "-", "L", "e", "n", "g", "t", "h" >>, h(K_contentLength))),
           SpreadIf(<< "C", "o", "n", "t", "e", "n", "t", "-", "R", "a", "n", "g", "e" >>, h(K_contentRange))),
           SpreadIf(<< "L", "a", "s", "t", "-", "M", "o", "d", "i", "f", "i", "e", "d" >>, h(K_lastModified))),
           SpreadIf(<< "E", "T", "a", "g" >>, h(K_etag)))]

\* isStreamingResponse
isStreamingResponse(response) == "stream" \in DOMAIN response

\* the catch of proxyRequest answering 500 whatever the upstream's status
proxyRequestCatch_Always500(error, url) ==
  IF error.t = "AxiosError" THEN OMSSError("INTERNAL_ERROR", 500, url) ELSE error

\* the catch of ProxyService.proxyRequest: what it throws for a caught error
proxyRequestCatch(error, url) ==
  IF error.t = "AxiosError"
  THEN IF error.response # None
       THEN OMSSError("INTERNAL_ERROR", error.response.status, url)
       ELSE OMSSError("INTERNAL_ERROR", 500, url)
  ELSE error

\* errorHandler: an OMSSError answers with its status and its JSON form; any
\* other error of this endpoint has no validation and no statusCode property
errorHandler(error) ==
  IF error.t = "OMSSError"
  THEN ErrorReply(error.statusCode, error.code, error.url)
  ELSE ErrorReply(500, "INTERNAL_ERROR", Undef)

\* ProxyController.proxy: the reply that delivers a result
Deliver(response) ==
  IF isStreamingResponse(response)
  THEN [kind |-> "stream", status |-> response.statusCode, code |-> Undef, url |-> Undef,
        headers |-> response.headers, type |-> Str(response.contentType),
        body |-> response.stream]
  ELSE [kind |-> "buffer", status |-> response.statusCode, code |-> Undef, url |-> Undef,
        headers |-> response.headers, type |-> Str(response.contentType),
        body |-> response.data]

\* String(data) for the value of the data parameter
DataText(data) == IF data.t = "str" THEN data.s ELSE << "u", "n", "d", "e", "f", "i", "n", "e", "d" >>

\* how far a request got when the handler returned or suspended
Outcome(phase_, pending_, sent, result_, reply_, trace_) ==
  [phase |-> phase_, pending |-> pending_, sent |-> sent, result |-> result_,
   reply |-> reply_, trace |-> trace_]

\* ProxyService.proxyRequest up to the await of axios.get, or to its throw. A
\* url that is not a string is handed to axios.get as it is; what axios makes
\* of it is not fixed by this code: a TypeError, or a request that cannot be
\* sent.
proxyRequestStart(encodedData, patterns, trace_) ==
  LET t1 == trace_ \o << "proxyRequest", "decodeProxyData" >>
      t2 == t1 \o << "shouldStream", "axios.get" >>
  IN  Once(decodeProxyData(encodedData), LAMBDA d :
        IF ~d.ok
        THEN { Outcome("done", None, << >>, Throw(d.err), << errorHandler(d.err) >>,
                       t1 \o << "errorHandler" >>) }
        ELSE IF DataUrl(d.v).t # "str"
        THEN { Outcome("done", None, << >>, Throw(e), << errorHandler(e) >>,
                       t2 \o << "errorHandler" >>) :
                 e \in { TypeError, proxyRequestCatch(AxiosError(None), DataUrl(d.v)) } }
        ELSE
          LET url  == DataUrl(d.v).s
              mode == IF shouldStream(patterns, url) THEN "stream" ELSE "buffer"
              headers == IF mode = "stream" THEN StreamingRequestHeaders(DataHeaders(d.v))
                         ELSE BufferedRequestHeaders(DataHeaders(d.v))
          IN  { Outcome("await", [proxyData |-> d.v, mode |-> mode],
                        << [url |-> url, headers |-> headers, mode |-> mode] >>,
                        None, << >>, t2) })

\* ProxyController.proxy up to its first await
ProxyStart(data, requestHeaders, patterns) ==
  LET t0 == << "decodeURIComponent", "JSON.parse" >>
      parsed == LET decoded == decodeURIComponent(DataText(data))
                IN  IF decoded.ok THEN Once(decoded.v, JSONparse) ELSE Thrown
  IN  IF MissingData(data)
      THEN { Outcome("done", None, << >>, None,
                     << ErrorReply(400, "MISSING_PARAMETER", Undef) >>, << >>) }
      ELSE Once(parsed, LAMBDA proxyDataRaw :
        IF ~proxyDataRaw.ok
        THEN { Outcome("done", None, << >>, None,
                       << ErrorReply(400, "INVALID_PARAMETER", Undef) >>, t0) }
        ELSE IF proxyDataRaw.v.t = "null"
        THEN \* proxyDataRaw.headers of null, outside the try
             { Outcome("done", None, << >>, None, << errorHandler(TypeError) >>,
                       t0 \o << "errorHandler" >>) }
        ELSE Once(InjectHeaders(proxyDataRaw.v, requestHeaders), LAMBDA proxyData :
             Once(JSONstringify(proxyData), LAMBDA json :
             Once(encodeURIComponent(json), LAMBDA enhancedData :
               proxyRequestStart(enhancedData, patterns, t0)))))

\* GET /v1/proxy arrives: ProxyController.proxy runs to its reply or to the
\* await of the upstream request
proxy(data, rawHeaders) ==
  /\ phase = "idle"
  /\ request' = [data |-> data, rawHeaders |-> rawHeaders, headers |-> IncomingHeaders(rawHeaders)]
  /\ \E o \in ProxyStart(data, IncomingHeaders(rawHeaders), streamPatterns) :
       /\ phase' = o.phase
       /\ pending' = o.pending
       /\ upstream' = upstream \o o.sent
       /\ result' = o.result
       /\ reply' = reply \o o.reply
       /\ trace' = o.trace
       /\ conn' = IF o.sent # << >> THEN "open" ELSE conn
       /\ streamPatterns' = IF o.pending = None THEN streamPatterns
                            ELSE PatternsAfterShouldStream(streamPatterns,
                                                           DataUrl(o.pending.proxyData).s)
  /\ UNCHANGED << proxyConfig, fin, fout, upResp >>

\* what has become of the upstream connection when axios.get settles: a
\* failed transport has none left; with responseType arraybuffer the body was
\* read to its end; with responseType stream the body is still to be read from
\* the connection, whether the promise resolves or validateStatus rejects
ConnectionAfter(pending_, outcome) ==
  IF outcome.t = "failure" THEN "failed"
  ELSE IF pending_.mode = "stream" THEN "open"
  ELSE "ended"

\* proxyRequestSettle that buffers whatever declares a Content-Length
proxyRequestSettle_ByLength(pending_, outcome) ==
  LET a == axiosGet(outcome)
  IN  IF a.ok
      THEN Ret(IF pending_.mode = "stream" /\ ~HasKey(a.v.headers, K_contentLength)
               THEN handleStreamingRequest(pending_.proxyData, a.v)
               ELSE handleBufferedRequest(pending_.proxyData, a.v))
      ELSE Throw(proxyRequestCatch(a.err, DataUrl(pending_.proxyData)))

\* what proxyRequest returns or throws once axios.get has settled
proxyRequestSettle(pending_, outcome) ==
  LET a == axiosGet(outcome)
  IN  IF a.ok
      THEN Ret(IF pending_.mode = "stream"
               THEN handleStreamingRequest(pending_.proxyData, a.v)
               ELSE handleBufferedRequest(pending_.proxyData, a.v))
      ELSE Throw(proxyRequestCatch(a.err, DataUrl(pending_.proxyData)))

\* axiosSettled that sends the request once more when the transport failed
axiosSettled_Retry(outcome) ==
  /\ phase = "await"
  /\ IF outcome.t = "failure" /\ Len(upstream) < 2
     THEN /\ upstream' = upstream \o upstream
          /\ UNCHANGED << upResp, result, reply, trace, phase, conn >>
     ELSE /\ upResp' = outcome
          /\ \E r \in { proxyRequestSettle(pending, outcome) } :
               /\ result' = r
               /\ reply' = Append(reply, IF r.ok THEN Deliver(r.v) ELSE errorHandler(r.err))
          /\ trace' = trace
          /\ phase' = "done"
          /\ upstream' = upstream
          /\ conn' = ConnectionAfter(pending, outcome)
  /\ UNCHANGED << proxyConfig, streamPatterns, fin, fout, request, pending >>

\* the upstream request settles: proxyRequest returns or throws, and the
\* controller or the error handler replies
axiosSettled(outcome) ==
  /\ phase = "await"
  /\ upResp' = outcome
  /\ \E r \in { proxyRequestSettle(pending, outcome) } :
         /\ result' = r
         /\ reply' = Append(reply, IF r.ok THEN Deliver(r.v) ELSE errorHandler(r.err))
         /\ trace' = trace \o (IF ~r.ok THEN << "errorHandler" >>
                               ELSE IF pending.mode = "stream" THEN << >>
                               ELSE IF isManifestFile(ResponseContentType(outcome),
                                                      DataUrl(pending.proxyData).s)
                                    THEN << "isManifestFile", "rewriteManifest" >>
                                    ELSE << "isManifestFile" >>)
  /\ phase' = "done"
  /\ conn' = ConnectionAfter(pending, outcome)
  /\ UNCHANGED << proxyConfig, streamPatterns, fin, fout, request, pending, upstream >>

\* the request is done and its result is a stream that reply.send relays
Relaying ==
  /\ phase = "done" /\ conn = "open"
  /\ result # None /\ result.ok /\ isStreamingResponse(result.v)

\* reply.send(response.stream): the relay reaches the end of the upstream's
\* body and the connection is done with
streamEnd ==
  /\ Relaying
  /\ conn' = "ended"
  /\ UNCHANGED << proxyConfig, streamPatterns, fin, fout, phase, request, pending, upstream,
                  upResp, result, reply, trace >>

\* reply.send(response.stream): the client goes away before the end of the
\* body; the framework destroys the stream it was given, which aborts the
\* upstream connection
clientClose ==
  /\ Relaying
  /\ conn' = "aborted"
  /\ UNCHANGED << proxyConfig, streamPatterns, fin, fout, phase, request, pending, upstream,
                  upResp, result, reply, trace >>

(***************************************************************************)
(* Requests and upstream answers of the proxy endpoint                     *)
(***************************************************************************)

\* "https://a.com/s.ts"
Url_ts == S_httpsSlashes \o U_acom \o << "/", "s", ".", "t", "s" >>
\* "https://a.com/v.mp4"
Url_mp4 == S_httpsSlashes \o U_acom \o << "/", "v", ".", "m", "p", "4" >>
\* "https://a.com/v\.mp4", with a backslash
Url_backslash == S_httpsSlashes \o U_acom \o << "/", "v", "\\", ".", "m", "p", "4" >>
\* "https://a.com/y.m3u8?t=1"
Url_query == S_httpsSlashes \o U_acom \o << "/", "y", ".", "m", "3", "u", "8", "?", "t", "=", "1" >>
\* "https://a.com/play"
Url_play == S_httpsSlashes \o U_acom \o << "/", "p", "l", "a", "y" >>

\* "https://a.com/y.m3u8/s"
Url_nested == S_httpsSlashes \o U_acom \o << "/", "y", ".", "m", "3", "u", "8", "/", "s" >>

\* "https://s.assets.io/v.mp4"
Url_assets == S_httpsSlashes \o << "s", ".", "a", "s", "s", "e", "t", "s", ".", "i", "o", "/", "v", ".", "m", "p", "4" >>

RequestUrls ==
  { Base_xy, Url_ts, Url_mp4, Url_backslash, Url_query, Url_play, Url_nested, Url_assets }

DescriptorHeaders ==
  { Undef,
    Headers(<< << H_Referer, << "/", "r" >> >> >>),
    Headers(<< << H_UserAgent, << "U", "A" >> >> >>),
    Headers(<< << H_Range, << "b", "y", "t", "e", "s", "=", "5", "-" >> >> >>),
    Headers(<< << ToLower(H_UserAgent), << "u", "a" >> >> >>) }

\* the data parameter as the router hands it over: absent, empty, the text of
\* a descriptor, a descriptor still percent-encoded, and texts that are no
\* descriptor
DataValues ==
  { Undef, Str(<< >>) }
  \cup { Str(DescriptorJson(u, h)) : u \in RequestUrls, h \in DescriptorHeaders }
  \cup { Str(encodeURIComponent(DescriptorJson(Url_ts, Undef))) }
  \cup { Str(x) : x \in { << "%" >>, << "%", "7", "B" >>, << "n", "u", "l", "l" >>, << "5" >>, << "\"", "a", "b", "\"" >>, << "[", "1", "]" >>, << "{", "}" >>,
                          << "{", "\"", "u", "r", "l", "\"", ":", "5", "}" >>, << "{", "\"", "u", "r", "l", "\"", ":", "\"", "\"", "}" >>, << "{", "\"", "u", "r", "l", "\"", ":", "n", "u", "l", "l", "}" >>, << "{", "\"", "u", "r", "l", "\"", ":", "t", "r", "u", "e", "}" >>,
                          << "{", "\"", "h", "e", "a", "d", "e", "r", "s", "\"", ":", "{", "}", "}" >> } }

Range_0_9 == << "b", "y", "t", "e", "s", "=", "0", "-", "9" >>

\* the header lines of the client, in the client's spelling of the names
RequestHeaderSets ==
  { << >>,
    << [k |-> H_range, v |-> Str(Range_0_9)] >>,
    << [k |-> H_Range, v |-> Str(Range_0_9)] >>,
    << [k |-> << "R", "A", "N", "G", "E" >>, v |-> Str(Range_0_9)] >> }

\* the argument of the ProxyService constructor
PatternConfigs == { None, Ret(<< DotPattern(<< "m", "p", "4" >>) >>) }

UpstreamStatuses == { 200, 206, 404, 416, 500, 503 }

H_contentDisposition == << "c", "o", "n", "t", "e", "n", "t", "-", "d", "i", "s", "p", "o", "s", "i", "t", "i", "o", "n" >>

\* response.headers: the names arrive in lower case
UpstreamHeaderSets ==
  { << >>,
    << [k |-> K_contentType, v |-> Str(<< "a", "p", "p", "l", "i", "c", "a", "t", "i", "o", "n", "/", "v", "n", "d", ".", "a", "p", "p", "l", "e", ".", "m", "p", "e", "g", "u", "r", "l" >>)] >>,
    << [k |-> K_contentType, v |-> Str(<< "t", "e", "x", "t", "/", "p", "l", "a", "i", "n" >>)],
       [k |-> K_cacheControl, v |-> Str(<< "n", "o", "-", "c", "a", "c", "h", "e" >>)],
       [k |-> K_acceptRanges, v |-> Str(<< "n", "o", "n", "e" >>)],
       [k |-> H_contentDisposition, v |-> Str(<< "a", "t", "t", "a", "c", "h", "m", "e", "n", "t" >>)] >>,
    << [k |-> K_contentType, v |-> Str(<< "a", "p", "p", "l", "i", "c", "a", "t", "i", "o", "n", "/", "x", "-", "m", "p", "e", "g", "U", "R", "L" >>)],
       [k |-> K_contentLength, v |-> Str(<< "1", "5" >>)] >>,
    << [k |-> K_contentType, v |-> Str(<< "v", "i", "d", "e", "o", "/", "m", "p", "2", "t" >>)],
       [k |-> K_contentLength, v |-> Str(<< "4" >>)],
       [k |-> K_contentRange, v |-> Str(<< "b", "y", "t", "e", "s", " ", "0", "-", "3", "/", "9" >>)],
       [k |-> K_acceptRanges, v |-> Str(<< "b", "y", "t", "e", "s" >>)],
       [k |-> K_etag, v |-> Str(<< "\"", "e", "1", "\"" >>)] >> }

\* a playlist, and a body that is no playlist and holds URL-shaped text
Body_playlist == << "#", "E", "X", "T", "M", "3", "U" >> \o << "\n" >> \o << "s", "e", "g", "1", ".", "t", "s" >>
Body_media    == << "G", "@", "/", "x" >>
\* a playlist with a key directive and an indented segment
Body_keyed    == << "#", "K", ":", "U", "R", "I", "=", "\"", "k", "\"" >> \o << "\n" >> \o << " ", "s", ".", "t", "s" >>

UpstreamBodies == { Body_playlist, Body_media, Body_keyed }

\* network error, timeout, redirect limit exceeded
TransportFailures == { "ENOTFOUND", "ECONNABORTED", "ERR_FR_TOO_MANY_REDIRECTS" }

UpstreamOutcomes ==
  [t : { "response" }, status : UpstreamStatuses, headers : UpstreamHeaderSets,
   data : UpstreamBodies]
  \cup [t : { "failure" }, code : TransportFailures]

Init ==
  /\ proxyConfig = UnsetConfig
  /\ streamPatterns \in { ProxyService_new(p) : p \in PatternConfigs }
  /\ fin = None
  /\ fout = None
  /\ phase = "idle"
  /\ request = None
  /\ pending = None
  /\ upstream = << >>
  /\ upResp = None
  /\ result = None
  /\ reply = << >>
  /\ trace = << >>
  /\ conn = "none"

Next ==
  \/ \E data \in DataValues, rawHeaders \in RequestHeaderSets : proxy(data, rawHeaders)
  \/ \E outcome \in UpstreamOutcomes : axiosSettled(outcome)
  \/ streamEnd
  \/ clientClose

Spec == Init /\ [][Next]_vars


(***************************************************************************)
(* Properties of the proxy endpoint                                        *)
(***************************************************************************)

\* the part of a URL before its query and fragment
UrlPath(url) == SubSeq(url, 1, IndexOfAny(url, 1, { "?", "#" }) - 1)

\* The contract's recognition of a manifest: the Content-Type carries an HLS
\* or DASH media type (media types compare without regard to case), or the
\* extension of the URL is .m3u8 or .mpd.
ContractIsManifest(contentType, url) ==
  \/ \E marker \in { << "a", "p", "p", "l", "i", "c", "a", "t", "i", "o", "n", "/", "v", "n", "d", ".", "a", "p", "p", "l", "e", ".", "m", "p", "e", "g", "u", "r", "l" >>,
                     << "a", "p", "p", "l", "i", "c", "a", "t", "i", "o", "n", "/", "x", "-", "m", "p", "e", "g", "u", "r", "l" >>,
                     << "a", "p", "p", "l", "i", "c", "a", "t", "i", "o", "n", "/", "d", "a", "s", "h", "+", "x", "m", "l" >> } : includes(ToLower(contentType), marker)
  \/ endsWith(UrlPath(url), << ".", "m", "3", "u", "8" >>)
  \/ endsWith(UrlPath(url), << ".", "m", "p", "d" >>)

\* C6: a buffered body reaches the client rewritten when the response is
\* recognized as a manifest (its Content-Type carries an HLS or DASH marker,
\* or the URL's extension is .m3u8 or .mpd) and byte for byte unchanged when it
\* is not.
C6_RewrittenIffManifest ==
  \A i \in 1..Len(reply) :
    reply[i].kind = "buffer" =>
      LET url == DataUrl(pending.proxyData).s
      IN  reply[i].body =
            IF ContractIsManifest(ResponseContentType(upResp), url)
            THEN rewriteManifest(upResp.data, url, DataHeaders(pending.proxyData))
            ELSE upResp.data

\* the contract's descriptor: percent-decodable text of a JSON object whose
\* url is a string
ValidDescriptor(token) ==
  LET decoded == decodeURIComponent(token)
      data    == IF decoded.ok THEN JSONparse(decoded.v) ELSE Thrown
  IN  data.ok /\ data.v.t = "obj" /\ GetKey(data.v.m, K_url).t = "str"

\* C7: a request whose data token is not a valid descriptor is answered 400
\* INVALID_PARAMETER without any upstream request, and decodeProxyData
\* succeeds on a token only if it is a valid descriptor.
C7_InvalidToken ==
  (phase # "idle" /\ Truthy(request.data)) =>
    /\ ~ValidDescriptor(request.data.s) =>
         /\ phase = "done"
         /\ upstream = << >>
         /\ Len(reply) = 1
         /\ reply[1].status = 400
         /\ reply[1].code = "INVALID_PARAMETER"
    /\ decodeProxyData(request.data.s).ok => ValidDescriptor(request.data.s)

\* C8: a request without data parameter is answered 400 MISSING_PARAMETER, and
\* nothing else happens for it: no decoding, no call of proxyRequest, no
\* upstream request.
C8_MissingData ==
  (phase # "idle" /\ request.data = Undef) =>
    /\ phase = "done"
    /\ Len(reply) = 1
    /\ reply[1].kind = "error"
    /\ reply[1].status = 400
    /\ reply[1].code = "MISSING_PARAMETER"
    /\ trace = << >>
    /\ result = None
    /\ upstream = << >>

\* a request without data parameter was answered
C8_Witness ==
  /\ phase = "done"
  /\ request.data = Undef
  /\ reply # << >>

\* C9: every delivered reply, buffered or streaming, has the status of the
\* upstream response.
C9_StatusPassThrough ==
  \A i \in 1..Len(reply) :
    reply[i].kind \in { "buffer", "stream" } =>
      /\ upResp # None
      /\ upResp.t = "response"
      /\ reply[i].status = upResp.status

\* an upstream 206 was delivered as a stream
C9_Witness ==
  /\ phase = "done"
  /\ upResp # None /\ upResp.t = "response" /\ upResp.status = 206
  /\ reply # << >> /\ reply[1].kind = "stream"

\* C10: once the upstream request has settled, proxyRequest has returned a
\* result with the upstream's status if that status is below 500, and has
\* otherwise thrown an OMSSError that carries the target URL, with the
\* upstream's status for a response and 500 for a transport failure.
C10_ResultOrError ==
  upResp # None =>
    LET url == DataUrl(pending.proxyData)
    IN  IF upResp.t = "response" /\ upResp.status < 500
        THEN /\ result.ok
             /\ result.v.statusCode = upResp.status
             /\ isStreamingResponse(result.v) <=> pending.mode = "stream"
        ELSE /\ ~result.ok
             /\ result.err.t = "OMSSError"
             /\ result.err.url = url
             /\ result.err.statusCode =
                  IF upResp.t = "response" THEN upResp.status ELSE 500

\* a streamed request met an upstream 503 and proxyRequest threw
C10_Witness ==
  /\ upResp # None /\ upResp.t = "response" /\ upResp.status = 503
  /\ pending.mode = "stream"
  /\ ~result.ok

\* the value a header list puts on the wire under a name: names are compared
\* without regard to letter case and a later member replaces an earlier one
HeaderOnWire(headers, name) ==
  LET at == { i \in 1..Len(headers) : ToLower(headers[i].k) = ToLower(name) }
  IN  IF at = {} THEN Undef
      ELSE headers[CHOOSE i \in at : \A j \in at : j <= i].v

\* the Range header of the client's request, whatever its spelling
InboundRange == HeaderOnWire(request.rawHeaders, H_range)

\* C11: when the client's request carries a Range header with a value, in any
\* letter case of the name, the descriptor handed to proxyRequest has that
\* value under "range", every upstream request carries exactly that value as
\* its Range header, and a delivered reply has the upstream's status and the
\* upstream's Content-Range value.
C11_RangeForwarded ==
  (phase # "idle" /\ Truthy(InboundRange)) =>
    /\ pending # None =>
         GetKey(OwnProps(DataHeaders(pending.proxyData)), H_range) = InboundRange
    /\ \A i \in 1..Len(upstream) :
         HeaderOnWire(upstream[i].headers, H_range) = InboundRange
    /\ \A i \in 1..Len(reply) :
         reply[i].kind \in { "buffer", "stream" } =>
           /\ reply[i].status = upResp.status
           /\ HeaderOnWire(reply[i].headers, K_contentRange)
                = GetKey(upResp.headers, K_contentRange)

\* a request with the header spelled RANGE for a descriptor that already
\* carries another Range was streamed, with an upstream 206 and Content-Range
C11_Witness ==
  /\ phase = "done" /\ pending # None /\ upResp # None
  /\ \E i \in 1..Len(request.rawHeaders) : request.rawHeaders[i].k = << "R", "A", "N", "G", "E" >>
  /\ HasKey(OwnProps(DataHeaders(pending.proxyData)), H_Range)
  /\ pending.mode = "stream"
  /\ upResp.t = "response" /\ upResp.status = 206
  /\ HasKey(upResp.headers, K_contentRange)
  /\ reply # << >> /\ reply[1].kind = "stream"

\* a header list has a member of that name, compared without letter case
CarriesHeader(headers, name) == HeaderOnWire(headers, name) # Undef

\* C12: the headers of every upstream request hold every header of the
\* descriptor that proxyRequest decoded with its value, and nothing else but
\* the default User-Agent, which is there only when the descriptor has no
\* User-Agent.
C12_Additive ==
  \A i \in 1..Len(upstream) :
    pending # None =>
      LET d == OwnProps(DataHeaders(pending.proxyData))
          s == upstream[i].headers
      IN  /\ \A j \in 1..Len(d) : HeaderOnWire(s, d[j].k) = HeaderOnWire(d, d[j].k)
          /\ \A j \in 1..Len(s) :
               \/ CarriesHeader(d, s[j].k)
               \/ /\ s[j].k = H_UserAgent
                  /\ s[j].v = Str(DefaultUserAgent)

MediaExtensions == { << ".", "m", "p", "4" >>, << ".", "m", "k", "v" >>, << ".", "w", "e", "b", "m" >>, << ".", "a", "v", "i" >>, << ".", "m", "o", "v" >> }

\* the URL ends in a media extension, possibly followed by a query string
EndsInMediaExtension(url) ==
  LET path == SubSeq(url, 1, IndexOfAny(url, 1, { "?" }) - 1)
  IN  \E ext \in MediaExtensions : endsWith(path, ext)

\* C13: a service constructed without streamPatterns fetches in streaming
\* mode every target whose URL ends in .mp4, .mkv, .webm, .avi or .mov (a
\* query string may follow), and under any configuration a target is fetched
\* in streaming mode exactly when one of the compiled patterns matches it.
C13_ModeSelection ==
  \A i \in 1..Len(upstream) :
      /\ (streamPatterns = ProxyService_new(None) /\ EndsInMediaExtension(upstream[i].url))
           => upstream[i].mode = "stream"
      /\ upstream[i].mode = "stream"
           <=> \E j \in 1..Len(streamPatterns) : RegExpTest(streamPatterns[j], upstream[i].url)

\* the first position of an entry in the trace, 0 when it is not there
FirstAt(entry) ==
  IF \E i \in 1..Len(trace) : trace[i] = entry
  THEN CHOOSE i \in 1..Len(trace) : trace[i] = entry /\ \A j \in 1..(i - 1) : trace[j] # entry
  ELSE 0

\* a request whose mode is chosen is served in that mode only
ServedInChosenMode ==
  /\ upstream # << >> =>
       /\ 0 < FirstAt("shouldStream") /\ FirstAt("shouldStream") < FirstAt("axios.get")
       /\ pending # None
       /\ pending.mode = (IF shouldStream(streamPatterns, DataUrl(pending.proxyData).s)
                          THEN "stream" ELSE "buffer")
       /\ \A i \in 1..Len(upstream) : upstream[i].mode = pending.mode
  /\ (pending # None /\ pending.mode = "stream") =>
       /\ result # None /\ result.ok => isStreamingResponse(result.v)
       /\ \A i \in 1..Len(reply) : reply[i].kind # "buffer"
       /\ \A i \in 1..Len(trace) : trace[i] \notin { "isManifestFile", "rewriteManifest" }

\* C14: the mode of a request is chosen by shouldStream from the target URL
\* before axios.get is called, it does not change afterwards, and a request
\* in streaming mode is never answered from handleBufferedRequest, whatever
\* the upstream response declares.
C14_DecisionBeforeFetch ==
  /\ []ServedInChosenMode
  /\ [][pending # None => pending' = pending]_vars

\* a streamed request was delivered although the upstream declared a
\* Content-Length
C14_Witness ==
  /\ phase = "done" /\ pending # None /\ upResp # None
  /\ pending.mode = "stream"
  /\ upResp.t = "response" /\ HasKey(upResp.headers, K_contentLength)
  /\ result.ok /\ isStreamingResponse(result.v)

\* the decimal text of a natural number
RECURSIVE DecimalText(_)
DecimalText(n) ==
  IF n < 10 THEN << CharOf(48 + n) >>
  ELSE Append(DecimalText(n \div 10), CharOf(48 + (n % 10)))

\* the manifest of the request was rewritten
Rewritten == \E i \in 1..Len(trace) : trace[i] = "rewriteManifest"

\* C15: a buffered reply whose body was rewritten as a manifest has no
\* Content-Length other than the length of the body it delivers, and has the
\* content type of the upstream when the upstream declared one.
C15_LengthOfRewrittenBody ==
  \A i \in 1..Len(reply) :
    (reply[i].kind = "buffer" /\ Rewritten) =>
      /\ HeaderOnWire(reply[i].headers, K_contentLength)
           \in { Undef, Str(DecimalText(Len(reply[i].body))) }
      /\ ResponseContentType(upResp) # << >> =>
           reply[i].type = Str(ResponseContentType(upResp))

\* the descriptor of the request as the client sent it
ParentDescriptor == decodeProxyData(request.data.s).v

\* the parent's headers with the client's Range header, if it has one, under
\* the name range
MergedHeaders ==
  LET h == OwnProps(GetKey(ParentDescriptor.m, K_headers))
  IN  Obj(IF Truthy(InboundRange) THEN SetKey(h, H_range, InboundRange) ELSE h)

\* the proxy URLs of a rewritten body: its URL lines and the values of the
\* quoted URI attributes of its directives
MintedUrls(body) ==
  LET lines == split(body, "\n")
  IN  { trim(lines[i]) : i \in { j \in 1..Len(lines) : startsWith(trim(lines[j]), ProxyPath) } }
      \cup UNION { { QuotedUriAt(lines[i], a).value : a \in QuotedUriFrom(lines[i], 1) } :
                   i \in { j \in 1..Len(lines) : startsWith(lines[j], << "#" >>) } }

\* every proxy URL of every rewritten body carries the merged headers
MintedWithMergedHeaders ==
  \A i \in 1..Len(reply) :
    (reply[i].kind = "buffer" /\ Rewritten) =>
      \A u \in MintedUrls(reply[i].body) :
        /\ startsWith(u, ProxyPath)
        /\ LET d == decodeProxyData(DataToken(u))
           IN  d.ok /\ GetKey(d.v.m, K_headers) = MergedHeaders

\* C16: every proxy URL minted while the manifest of a request is rewritten
\* decodes to a descriptor whose headers are the headers of the request's
\* descriptor merged with the client's Range header, and neither the request
\* nor the descriptor made for it changes while the request is served.
C16_MintedHeaders ==
  /\ []MintedWithMergedHeaders
  /\ [][phase # "idle" => (request' = request /\ pending' = pending)]_vars

\* a playlist with a key directive was rewritten for a descriptor with a
\* Referer and a request with a Range header
C16_Witness ==
  /\ phase = "done" /\ reply # << >> /\ reply[1].kind = "buffer" /\ Rewritten
  /\ upResp.data = Body_keyed
  /\ Truthy(InboundRange)
  /\ HasKey(OwnProps(GetKey(ParentDescriptor.m, K_headers)), H_Referer)
  /\ Cardinality(MintedUrls(reply[1].body)) = 2

\* the extensions the URL-likeness heuristic knows
KnownExtensions == { << ".", "t", "s" >>, << ".", "m", "3", "u", "8" >>, << ".", "m", "p", "4" >>, << ".", "m", "4", "s" >>, << ".", "w", "e", "b", "m" >>, << ".", "v", "t", "t" >>, << ".", "k", "e", "y" >> }

\* the line is a name of letters, digits, "_" and "-", a dot and a letter or digit
BareNameShape(s) ==
  \E n \in 2..(Len(s) - 1) :
    /\ \A j \in 1..(n - 1) : s[j] \in Alnum \cup { "_", "-" }
    /\ s[n] = "." /\ s[n + 1] \in Alnum

\* the URL-likeness heuristic, as the specification lists it
UrlLike(s) ==
  \/ startsWith(s, S_httpSlashes) \/ startsWith(s, S_httpsSlashes)
  \/ startsWith(s, << "/" >>)
  \/ \E i \in 1..Len(s) : s[i] = "/"
  \/ \E ext \in KnownExtensions : includes(s, ext)
  \/ BareNameShape(s)

\* a line that the rewriter has to leave alone
PassThroughLine(s) ==
  \/ trim(s) = << >>
  \/ startsWith(s, << "#" >>) /\ QuotedUriFrom(s, 1) = { }
  \/ ~startsWith(s, << "#" >>) /\ ~UrlLike(trim(s))

\* C18: rewriteManifest puts out unchanged, at its place, every blank line,
\* every line that begins with "#" and has no quoted URI attribute, and every
\* other line that fails the URL-likeness heuristic.
C18_PassThrough ==
  fout # None =>
    /\ Len(OutLines) = Len(InLines)
    /\ \A i \in 1..Len(InLines) : PassThroughLine(InLines[i]) => OutLines[i] = InLines[i]

\* a manifest with a line that is no URL and a directive with an unquoted URI
\* was rewritten
C18_Witness ==
  /\ fout # None
  /\ \E i \in 1..Len(InLines) : InLines[i] = Line_opaque /\ OutLines[i] = Line_opaque
  /\ \E i \in 1..Len(InLines) : InLines[i] = Line_unquoted /\ OutLines[i] = Line_unquoted

\* the white space a line begins with
LeadingSpace(s) == SubSeq(s, 1, LeadingWs(s))

\* C19: the output of rewriteManifest has as many lines as the input; each
\* output line is what the rewriter makes of the input line at its place when
\* that line is a manifest of its own; a rewritten URL line begins with the
\* white space of the input line; and a line is empty in the output exactly
\* when it is empty in the input, so the text ends in as many newlines as
\* before.
C19_LineStructure ==
  fout # None =>
    /\ Len(OutLines) = Len(InLines)
    /\ \A i \in 1..Len(InLines) :
         LET n == InLines[i]
             o == OutLines[i]
         IN  /\ o = rewriteManifest(n, fin.baseUrl, fin.headers)
             /\ (o = << >>) <=> (n = << >>)
             /\ (~startsWith(n, << "#" >>) /\ o # n) =>
                  /\ LeadingSpace(o) = LeadingSpace(n)
                  /\ startsWith(Drop(o, LeadingWs(n)), ProxyPath)

\* an indented URL line followed by the empty last line was rewritten
C19_Witness ==
  /\ fout # None
  /\ InLines = << Line_indented, Line_blank >>
  /\ Len(OutLines) = 2
  /\ OutLines[1] # Line_indented /\ LeadingSpace(OutLines[1]) = << " ", " " >>
  /\ OutLines[2] = << >>

\* the value a reply has to carry for a header that is a default: the
\* upstream's value when the upstream supplied one, the default otherwise
KeptOrDefault(name, default) ==
  IF Truthy(HeaderOnWire(upResp.headers, name))
  THEN HeaderOnWire(upResp.headers, name)
  ELSE Str(default)

\* C20: a buffered reply whose body was not rewritten has the upstream's body
\* and, when the upstream declared one, its content type; its Cache-Control,
\* Accept-Ranges and Content-Disposition are the upstream's values when the
\* upstream supplied them, and public, max-age=7200, bytes and inline
\* otherwise.
C20_DefaultsOnlyWhenAbsent ==
  \A i \in 1..Len(reply) :
    (reply[i].kind = "buffer" /\ ~Rewritten) =>
      /\ reply[i].body = upResp.data
      /\ ResponseContentType(upResp) # << >> => reply[i].type = Str(ResponseContentType(upResp))
      /\ HeaderOnWire(reply[i].headers, K_cacheControl)
           = KeptOrDefault(K_cacheControl, << "p", "u", "b", "l", "i", "c", ",", " ", "m", "a", "x", "-", "a", "g", "e", "=", "7", "2", "0", "0" >>)
      /\ HeaderOnWire(reply[i].headers, K_acceptRanges) = KeptOrDefault(K_acceptRanges, << "b", "y", "t", "e", "s" >>)
      /\ HeaderOnWire(reply[i].headers, H_contentDisposition)
           = KeptOrDefault(H_contentDisposition, << "i", "n", "l", "i", "n", "e" >>)

\* the text of a URL from its last "." on, in lower case; empty without a "."
FinalExtension(url) ==
  IF \E i \in 1..Len(url) : url[i] = "."
  THEN ToLower(Drop(url, (CHOOSE i \in 1..Len(url) : url[i] = "." /\ \A j \in (i + 1)..Len(url) : url[j] # ".") - 1))
  ELSE << >>

\* the inference table of the specification
TableMime(ext) ==
  CASE ext = << ".", "v", "t", "t" >> -> << "t", "e", "x", "t", "/", "v", "t", "t" >>
    [] ext \in { << ".", "s", "r", "t" >>, << ".", "a", "s", "s" >>, << ".", "s", "s", "a" >> } -> << "t", "e", "x", "t", "/", "p", "l", "a", "i", "n" >>
    [] ext = << ".", "m", "3", "u", "8" >> -> << "a", "p", "p", "l", "i", "c", "a", "t", "i", "o", "n", "/", "x", "-", "m", "p", "e", "g", "U", "R", "L" >>
    [] ext = << ".", "m", "p", "d" >> -> << "a", "p", "p", "l", "i", "c", "a", "t", "i", "o", "n", "/", "d", "a", "s", "h", "+", "x", "m", "l" >>
    [] ext = << ".", "m", "p", "4" >> -> << "v", "i", "d", "e", "o", "/", "m", "p", "4" >>
    [] ext = << ".", "m", "k", "v" >> -> << "v", "i", "d", "e", "o", "/", "x", "-", "m", "a", "t", "r", "o", "s", "k", "a" >>
    [] ext = << ".", "w", "e", "b", "m" >> -> << "v", "i", "d", "e", "o", "/", "w", "e", "b", "m" >>
    [] ext = << ".", "a", "v", "i" >> -> << "v", "i", "d", "e", "o", "/", "x", "-", "m", "s", "v", "i", "d", "e", "o" >>
    [] ext = << ".", "m", "o", "v" >> -> << "v", "i", "d", "e", "o", "/", "q", "u", "i", "c", "k", "t", "i", "m", "e" >>
    [] ext = << ".", "t", "s" >> -> << "v", "i", "d", "e", "o", "/", "m", "p", "2", "t" >>
    [] OTHER -> << "a", "p", "p", "l", "i", "c", "a", "t", "i", "o", "n", "/", "o", "c", "t", "e", "t", "-", "s", "t", "r", "e", "a", "m" >>

\* C21: a delivered reply has the upstream's Content-Type when the upstream
\* supplied one, and otherwise the type the table gives for the final
\* extension of the target URL.
C21_ContentType ==
  \A i \in 1..Len(reply) :
    reply[i].kind \in { "buffer", "stream" } =>
      reply[i].type =
        IF Truthy(GetKey(upResp.headers, K_contentType))
        THEN GetKey(upResp.headers, K_contentType)
        ELSE Str(TableMime(FinalExtension(DataUrl(pending.proxyData).s)))

\* one request has at most one upstream request, and an answer of the
\* upstream ends the handling
OneUpstreamRequest ==
  /\ Len(upstream) <= 1
  /\ upResp # None => (Len(upstream) = 1 /\ phase = "done" /\ Len(reply) = 1)
  /\ (upResp # None /\ (upResp.t = "failure" \/ upResp.status >= 500)) =>
       (~result.ok /\ reply[1].kind = "error")

\* C22: handling a request calls axios.get at most once: when the call has
\* settled, with a response, an upstream error, a timeout or an exceeded
\* redirect limit, no further upstream request is made and the failure is
\* what the request is answered with, in both modes.
C22_NoRetry ==
  /\ []OneUpstreamRequest
  /\ [][upstream # << >> => upstream' = upstream]_vars
  /\ [][phase = "done" => (upstream' = upstream /\ reply' = reply /\ result' = result)]_vars

\* a streamed request ran into the redirect limit and was answered with the
\* error, after one upstream request
C22_Witness ==
  /\ phase = "done" /\ pending # None /\ upResp # None
  /\ pending.mode = "stream"
  /\ upResp.t = "failure" /\ upResp.code = "ERR_FR_TOO_MANY_REDIRECTS"
  /\ Len(upstream) = 1
  /\ reply[1].kind = "error" /\ reply[1].status = 500

\* C23: a streamed body is handed to one reply at most, and once the request
\* is done the upstream connection is open only while that reply relays the
\* body: after an upstream error, as after the end of the relay or the
\* departure of the client, no upstream connection remains open.
C23_ConnectionReleased ==
  /\ Cardinality({ i \in 1..Len(reply) : reply[i].kind = "stream" }) <= 1
  /\ (phase = "done" /\ conn = "open") => Relaying

\* the timeout that axios.get is given (timeout: 30000): a request that waits
\* for its upstream does not wait for ever, for unless the upstream responds
\* or the transport fails first, the call fails with ECONNABORTED
SpecFair ==
  Spec /\ WF_vars(axiosSettled([t |-> "failure", code |-> "ECONNABORTED"]))

\* a reply with a status that either delivers the upstream's response or is an
\* error that names the failing parameter or carries the failing target
DefiniteReply(r) ==
  /\ r.status \in 100..599
  /\ r.kind = "error" =>
       \/ r.code \in { "MISSING_PARAMETER", "INVALID_PARAMETER" }
       \/ r.url # Undef

\* C24: a request never has more than one reply, every reply is a definite
\* one, a request that is done has its reply, and every request that has
\* arrived is replied to in the end.
C24_OneDefiniteReply ==
  /\ []((Len(reply) <= 1)
        /\ (\A i \in 1..Len(reply) : DefiniteReply(reply[i]))
        /\ (phase = "done" => Len(reply) = 1))
  /\ ((phase # "idle") ~> (Len(reply) = 1))


(***************************************************************************)
(* Two requests in flight at the one ProxyService. The handlers run on     *)
(* one thread: a request runs from its arrival to the await of its         *)
(* upstream request, and from the settling of that request to its reply,   *)
(* and the steps of the two requests interleave in any order. fin holds    *)
(* the two requests, fout the argument the service was constructed with.   *)
(***************************************************************************)

PairRequests == { 1, 2 }

PairDatas ==
  { Str(DescriptorJson(u, Undef)) : u \in { Url_ts, Url_mp4, Url_backslash, Url_query } }
  \cup { Undef, Str(<< "5" >>) }

PairHeaderSets == { << >>, << [k |-> H_range, v |-> Str(Range_0_9)] >> }

PairOutcomes ==
  { o \in UpstreamOutcomes :
      \/ o.t = "failure" /\ o.code = "ECONNABORTED"
      \/ /\ o.t = "response" /\ o.status \in { 200, 500 } /\ o.data = Body_playlist
         /\ Len(o.headers) = 1 }

\* the argument of the constructor: none, or the literal /\.mp4($|\?)/g
PairPatternConfigs ==
  { None, Ret(<< [DotPattern(<< "m", "p", "4" >>) EXCEPT !.global = TRUE] >>) }

PairIdle ==
  [phase |-> "idle", data |-> Undef, rawHeaders |-> << >>, pending |-> None, sent |-> << >>,
   upResp |-> None, result |-> None, reply |-> << >>]

PairInit ==
  /\ proxyConfig = UnsetConfig
  /\ fout \in PairPatternConfigs
  /\ streamPatterns = ProxyService_new(fout)
  /\ fin = [r \in PairRequests |-> PairIdle]
  /\ phase = "idle"
  /\ request = None
  /\ pending = None
  /\ trace = << >>
  /\ upstream = << >>
  /\ upResp = None
  /\ result = None
  /\ reply = << >>
  /\ conn = "none"

\* ProxyController.proxy for request r, up to its reply or to the await of
\* the upstream request
PairProxy(r, data, rawHeaders) ==
  /\ fin[r].phase = "idle"
  /\ \E o \in ProxyStart(data, IncomingHeaders(rawHeaders), streamPatterns) :
       /\ fin' = [fin EXCEPT ![r] = [phase |-> o.phase, data |-> data, rawHeaders |-> rawHeaders,
                                      pending |-> o.pending, sent |-> o.sent, upResp |-> None,
                                      result |-> o.result, reply |-> o.reply]]
       /\ streamPatterns' = IF o.pending = None THEN streamPatterns
                            ELSE PatternsAfterShouldStream(streamPatterns,
                                                           DataUrl(o.pending.proxyData).s)
  /\ UNCHANGED << proxyConfig, fout, phase, request, pending, upstream, upResp, result, reply,
                  trace, conn >>

\* the upstream request of request r settles and the handler replies
PairSettled(r, outcome) ==
  /\ fin[r].phase = "await"
  /\ \E res \in { proxyRequestSettle(fin[r].pending, outcome) } :
       fin' = [fin EXCEPT ![r].phase = "done", ![r].upResp = outcome, ![r].result = res,
                          ![r].reply = << IF res.ok THEN Deliver(res.v) ELSE errorHandler(res.err) >>]
  /\ UNCHANGED << proxyConfig, streamPatterns, fout, phase, request, pending, upstream, upResp,
                  result, reply, trace, conn >>

PairNext ==
  \/ \E r \in PairRequests, data \in PairDatas, rawHeaders \in PairHeaderSets :
       PairProxy(r, data, rawHeaders)
  \/ \E r \in PairRequests, outcome \in PairOutcomes : PairSettled(r, outcome)

SpecPair == PairInit /\ [][PairNext]_vars

\* the request on its own: the same data and headers handed to a service
\* newly constructed with the same argument, and the same upstream outcome
AloneStart(q, config) ==
  ProxyStart(q.data, IncomingHeaders(q.rawHeaders), ProxyService_new(config))

AloneReply(o, outcome) ==
  IF o.phase = "done" THEN o.reply
  ELSE LET res == proxyRequestSettle(o.pending, outcome)
       IN  << IF res.ok THEN Deliver(res.v) ELSE errorHandler(res.err) >>

SameAsAlone(q, config) ==
  \E o \in AloneStart(q, config) :
    /\ q.pending = o.pending
    /\ q.sent = o.sent
    /\ q.phase = "await" => q.reply = << >>
    /\ q.phase = "done" => q.reply = AloneReply(o, q.upResp)

\* C25: whatever the other request has done, a request's transport mode,
\* upstream URL and headers, and its reply (status, headers, body) are those
\* of the same request served alone by a fresh service, the shared pattern
\* table is as it was constructed, and a request can always take its next
\* step: arrive when it has not, settle when it waits for its upstream.
C25_Independent ==
  /\ streamPatterns = ProxyService_new(fout)
  /\ \A r \in PairRequests :
       /\ fin[r].phase # "idle" => SameAsAlone(fin[r], fout)
       /\ fin[r].phase = "idle" => ENABLED PairProxy(r, Undef, << >>)
       /\ fin[r].phase = "await" =>
            ENABLED PairSettled(r, [t |-> "failure", code |-> "ECONNABORTED"])

\* both requests asked for the same streamed target of a service constructed
\* with the g literal, and both are done
C25_Witness ==
  /\ fout # None
  /\ fin # None
  /\ \A r \in PairRequests :
       /\ fin[r].phase = "done"
       /\ fin[r].pending # None
       /\ fin[r].pending.mode = "stream"
       /\ fin[r].data = fin[1].data
       /\ fin[r].upResp.t = "response"


\* C26: once a proxy URL has been minted, no step changes the configuration
\* that BaseProvider.createProxyUrl takes its base URL from, nor the base URL
\* itself, and no step changes the streaming patterns.
C26_ConfigFixed ==
  [][/\ streamPatterns' = streamPatterns
     /\ fout.minted # << >> =>
          /\ proxyConfig' = proxyConfig
          /\ getProxyBaseUrl(proxyConfig') = getProxyBaseUrl(proxyConfig)]_vars


(***************************************************************************)
(* The public endpoint end to end: a provider mints the proxy URL of a     *)
(* descriptor, a client requests it, the HTTP front-end parses the query   *)
(* string and ProxyController.proxy runs up to the upstream request. fin   *)
(* is the descriptor, fout the minted URL and how far the request got.     *)
(***************************************************************************)

\* "https://a.com/"
PublicPrefix == S_httpsSlashes \o U_acom \o << "/" >>

\* descriptor urls: a path of up to MaxUrlLen characters, among them "%"
PublicUrls == { PublicPrefix \o u : u \in CodecUrls }

\* request.query.data: the front-end's query parser reads "+" as a space and
\* percent-decodes the value once; a value it cannot decode is kept as it is
QueryValue(token) ==
  LET spaced == [i \in 1..Len(token) |-> IF token[i] = "+" THEN " " ELSE token[i]]
      d == decodeURIComponent(spaced)
  IN  IF d.ok THEN d.v ELSE token

PublicInit ==
  /\ proxyConfig = UnsetConfig
  /\ fin \in [url : PublicUrls, headers : CodecHeaders]
  /\ fout = None
  /\ IdleRequest

\* a provider (or the manifest rewriter) mints the proxy URL of the descriptor
PublicMint(minter) ==
  /\ fout = None
  /\ fout' = [minted |-> Mint(minter, proxyConfig, fin.url, fin.headers), o |-> None]
  /\ UNCHANGED << proxyConfig, fin >>
  /\ UNCHANGED reqVars

\* GET of the minted URL with no Range header: the query parser, then
\* ProxyController.proxy up to its reply or to the await of axios.get
PublicRequest ==
  /\ fout # None
  /\ fout.o = None
  /\ \E o \in ProxyStart(Str(QueryValue(DataToken(fout.minted))), << >>, streamPatterns) :
       fout' = [fout EXCEPT !.o = o]
  /\ UNCHANGED << proxyConfig, fin >>
  /\ UNCHANGED reqVars

PublicNext ==
  \/ \E m \in Minters : PublicMint(m)
  \/ PublicRequest

SpecPublic == PublicInit /\ [][PublicNext]_vars

\* the request of the minted URL was handled
PublicHandled == fout # None /\ fout.o # None

\* C27: the request of a minted proxy URL is not rejected, and its upstream
\* request goes to the descriptor's url with the descriptor's headers.
C27_EndToEnd ==
  PublicHandled =>
    /\ fout.o.reply = << >>
    /\ fout.o.phase = "await"
    /\ Len(fout.o.sent) = 1
    /\ fout.o.sent[1].url = fin.url
    /\ DataUrl(fout.o.pending.proxyData) = Str(fin.url)
    /\ DataHeaders(fout.o.pending.proxyData) = fin.headers


(***************************************************************************)
(* The source endpoints: SourceService with its responseId table, the      *)
(* in-memory cache, the provider registry and the health note. fin is the  *)
(* state of the services, fout what an observer has seen of them. Time is  *)
(* counted in seconds, and the clock advances by the lifetime of a cached  *)
(* response. A call of getMovieSources or getTVSources runs from its       *)
(* arrival to the cache miss, and from the providers' answers to its       *)
(* return; refreshSource runs at once, since the delete of the in-memory   *)
(* cache has no await in it. The TMDB validation that precedes the cache   *)
(* lookup is taken to succeed.                                             *)
(***************************************************************************)

\* cacheTTL.sources, in seconds
SourcesTTL == 7200

\* the clock stops after this many lifetimes of a cached response
MaxPeriods == 2

\* responses built in one run
MaxResponses == 2

\* the calls of getMovieSources / getTVSources that can be in flight together
SourceCalls == { 1, 2 }

\* `movie:${tmdbId}` and `tv:${tmdbId}:s${season}:e${episode}`
MovieKey(tmdbId) == << "movie", tmdbId >>
TVKey(tmdbId, season, episode) == << "tv", tmdbId, season, episode >>

SourceRequests ==
  { [type |-> "movie", cacheKey |-> MovieKey(1)], [type |-> "tv", cacheKey |-> TVKey(1, 1, 1)] }

\* uuidv4(): the n-th identifier handed out; no two are equal
uuidv4(n) == << "r" >> \o DecimalText(n)

\* /^[a-zA-Z0-9_-]{1,128}$/.test(responseId)
ValidResponseId(responseId) ==
  /\ Len(responseId) \in 1..128
  /\ \A i \in 1..Len(responseId) : responseId[i] \in Alnum \cup { "_", "-" }

\* Map.prototype.get, set and delete on a function
MapGet(m, k) == IF k \in DOMAIN m THEN m[k] ELSE None
MapSet(m, k, v) == [x \in DOMAIN m \cup { k } |-> IF x = k THEN v ELSE m[x]]
MapDelete(m, k) == [x \in DOMAIN m \ { k } |-> m[x]]

\* MemoryCacheService.get: the value and the cache after the call
MemoryCache_get(cache, key, now) ==
  LET entry == MapGet(cache, key)
  IN  IF entry = None THEN [value |-> None, cache |-> cache]
      ELSE IF now > entry.expiresAt THEN [value |-> None, cache |-> MapDelete(cache, key)]
      ELSE [value |-> entry.value, cache |-> cache]

\* MemoryCacheService.set
MemoryCache_set(cache, key, value, ttl, now) ==
  MapSet(cache, key, [value |-> value, expiresAt |-> now + ttl])

\* MemoryCacheService.delete
MemoryCache_delete(cache, key) == MapDelete(cache, key)

\* ProviderRegistry.getProviders and getEnabledProviders
getProviders(registry) == registry
getEnabledProviders(registry) == SelectSeq(registry, LAMBDA p : p.enabled)

\* fetchFromProviders: the providers whose getMovieSources / getTVSources is
\* called for a request of the type
supportedProviders(registry, type) ==
  SelectSeq(getProviders(registry),
            LAMBDA p : (IF type = "movie" THEN "movies" ELSE "tv") \in p.supportedContentTypes)

\* a fetchFromProviders that leaves the disabled providers out
supportedProviders_Enabled(registry, type) ==
  SelectSeq(getEnabledProviders(registry),
            LAMBDA p : (IF type = "movie" THEN "movies" ELSE "tv") \in p.supportedContentTypes)

Provider(id, enabled, types) == [id |-> id, enabled |-> enabled, supportedContentTypes |-> types]

\* the registries of the study: with and without a disabled provider
Registries ==
  { << Provider("p1", TRUE, { "movies", "tv" }), Provider("p2", FALSE, { "movies", "tv" }),
       Provider("p3", TRUE, { "tv" }) >>,
    << Provider("p1", TRUE, { "movies", "tv" }), Provider("p3", TRUE, { "movies" }) >> }

\* ids a client asks to refresh: the ones handed out, one that never was,
\* and two that are malformed
RefreshIds ==
  { uuidv4(n) : n \in 1..MaxResponses } \cup { << "z", "z" >>, << "r", " ", "1" >>, << >> }

SourcesInit ==
  /\ proxyConfig = UnsetConfig
  /\ fin \in [registry : Registries, now : { 0 }, cache : { << >> }, responseIdMap : { << >> },
              issued : { 0 }, calls : { [c \in SourceCalls |-> None] }]
  /\ fout = [asked |-> { }, evicted |-> { }, refreshed |-> { }, last |-> None, seq |-> 0,
             health |-> None]
  /\ IdleRequest

\* getMovieSources / getTVSources up to the await that follows a cache miss;
\* a hit returns the cached response
SourcesBegin(c, req) ==
  /\ fin.calls[c] = None
  /\ \E got \in { MemoryCache_get(fin.cache, req.cacheKey, fin.now) } :
       fin' = [fin EXCEPT !.cache = got.cache,
                          !.calls[c] = IF got.value = None
                                       THEN [t |-> "fetching", type |-> req.type,
                                             cacheKey |-> req.cacheKey]
                                       ELSE None]
  /\ UNCHANGED << proxyConfig, fout >>
  /\ UNCHANGED reqVars

\* fetchFromProviders has asked the providers and they have answered, with
\* sources found or with none; buildResponse, storeResponseIdMapping,
\* cache.set
SourcesFetched(c, found) ==
  /\ fin.calls[c] # None
  /\ LET call == fin.calls[c]
         called == supportedProviders(fin.registry, call.type)
         responseId == uuidv4(fin.issued + 1)
     IN  /\ found => (Len(called) > 0 /\ fin.issued < MaxResponses)
         /\ fout' = [fout EXCEPT !.asked = @ \cup { [provider |-> called[i].id, type |-> call.type] :
                                                      i \in 1..Len(called) }]
         /\ fin' = IF ~found
                   THEN [fin EXCEPT !.calls[c] = None]
                   ELSE [fin EXCEPT !.calls[c] = None,
                                    !.issued = @ + 1,
                                    !.responseIdMap = MapSet(@, responseId,
                                                             [cacheKey |-> call.cacheKey,
                                                              createdAt |-> fin.now]),
                                    !.cache = MemoryCache_set(@, call.cacheKey, responseId,
                                                              SourcesTTL, fin.now)]
  /\ UNCHANGED proxyConfig
  /\ UNCHANGED reqVars

\* the response a refresh of the mapping takes out of the cache, if a live
\* one is there
Evicted(cache, mapping, now) ==
  LET entry == MapGet(cache, mapping.cacheKey)
  IN  IF entry # None /\ now <= entry.expiresAt THEN { entry.value } ELSE { }

\* a refreshSource that leaves the mapping in the table
refreshSource_KeepMapping(responseId) ==
  /\ IF ~ValidResponseId(responseId)
     THEN /\ fout' = [fout EXCEPT !.last = [id |-> responseId, outcome |-> "INVALID_RESPONSE_ID"],
                                  !.seq = 1 - @]
          /\ fin' = fin
     ELSE IF MapGet(fin.responseIdMap, responseId) = None
     THEN /\ fout' = [fout EXCEPT !.last = [id |-> responseId, outcome |-> "RESPONSE_ID_NOT_FOUND"],
                                  !.seq = 1 - @]
          /\ fin' = fin
     ELSE LET mapping == fin.responseIdMap[responseId]
          IN  /\ fin' = [fin EXCEPT !.cache = MemoryCache_delete(@, mapping.cacheKey)]
              /\ fout' = [fout EXCEPT !.last = [id |-> responseId, outcome |-> "OK"],
                                      !.seq = 1 - @,
                                      !.refreshed = @ \cup { responseId },
                                      !.evicted = @ \cup { [by |-> responseId, value |-> v] :
                                                            v \in Evicted(fin.cache, mapping, fin.now) }]
  /\ UNCHANGED proxyConfig
  /\ UNCHANGED reqVars

\* GET /v1/refresh/:responseId: SourceService.refreshSource, answered 200 OK
\* or with the error it throws
refreshSource(responseId) ==
  /\ IF ~ValidResponseId(responseId)
     THEN /\ fout' = [fout EXCEPT !.last = [id |-> responseId, outcome |-> "INVALID_RESPONSE_ID"],
                                  !.seq = 1 - @]
          /\ fin' = fin
     ELSE IF MapGet(fin.responseIdMap, responseId) = None
     THEN /\ fout' = [fout EXCEPT !.last = [id |-> responseId, outcome |-> "RESPONSE_ID_NOT_FOUND"],
                                  !.seq = 1 - @]
          /\ fin' = fin
     ELSE LET mapping == fin.responseIdMap[responseId]
          IN  /\ fin' = [fin EXCEPT !.cache = MemoryCache_delete(@, mapping.cacheKey),
                                    !.responseIdMap = MapDelete(@, responseId)]
              /\ fout' = [fout EXCEPT !.last = [id |-> responseId, outcome |-> "OK"],
                                      !.seq = 1 - @,
                                      !.refreshed = @ \cup { responseId },
                                      !.evicted = @ \cup { [by |-> responseId, value |-> v] :
                                                            v \in Evicted(fin.cache, mapping, fin.now) }]
  /\ UNCHANGED proxyConfig
  /\ UNCHANGED reqVars

\* the timer of the constructor: mappings older than the cache lifetime are dropped
cleanupExpiredMappings ==
  /\ \E id \in DOMAIN fin.responseIdMap : fin.now - fin.responseIdMap[id].createdAt > SourcesTTL
  /\ LET kept == { id \in DOMAIN fin.responseIdMap :
                    ~(fin.now - fin.responseIdMap[id].createdAt > SourcesTTL) }
     IN  fin' = [fin EXCEPT !.responseIdMap = [id \in kept |-> fin.responseIdMap[id]]]
  /\ UNCHANGED << proxyConfig, fout >>
  /\ UNCHANGED reqVars

\* the lifetime of a cached response passes
Tick ==
  /\ fin.now < MaxPeriods * SourcesTTL
  /\ fin' = [fin EXCEPT !.now = @ + SourcesTTL]
  /\ UNCHANGED << proxyConfig, fout >>
  /\ UNCHANGED reqVars

\* HealthService.getHealth: the providers its note counts and names
getHealth ==
  /\ fout' = [fout EXCEPT !.health =
                [t |-> "note",
                 providers |-> { getEnabledProviders(fin.registry)[i].id :
                                   i \in 1..Len(getEnabledProviders(fin.registry)) }]]
  /\ fout'.health # fout.health
  /\ UNCHANGED << proxyConfig, fin >>
  /\ UNCHANGED reqVars

SourcesNext ==
  \/ \E c \in SourceCalls, req \in SourceRequests : SourcesBegin(c, req)
  \/ \E c \in SourceCalls, found \in BOOLEAN : SourcesFetched(c, found)
  \/ \E responseId \in RefreshIds : refreshSource(responseId)
  \/ cleanupExpiredMappings
  \/ Tick
  \/ getHealth

SpecSources == SourcesInit /\ [][SourcesNext]_vars


\* C28: whenever a refreshSource(R) has succeeded, the live cached response
\* it took out of the cache, if any, was the one whose responseId is R.
C28_EvictsOwn == \A e \in fout.evicted : e.value = e.by

\* a step of refreshSource
RefreshStep == fout'.seq # fout.seq

CanBeQueried(registry) ==
  { registry[i].id : i \in { j \in 1..Len(registry) :
      registry[j].enabled /\ registry[j].supportedContentTypes # { } } }

\* C30: every provider that was asked for the sources of a movie or of an
\* episode is enabled and supports that type of content, and the providers
\* the health note counts are the ones that can be asked.
C30_OnlyEnabledAsked ==
  /\ \A a \in fout.asked :
       \E i \in 1..Len(fin.registry) :
         /\ fin.registry[i].id = a.provider
         /\ fin.registry[i].enabled
         /\ (IF a.type = "movie" THEN "movies" ELSE "tv") \in fin.registry[i].supportedContentTypes
  /\ fout.health # None =>
       /\ fout.health.providers = CanBeQueried(fin.registry)
       /\ \A a \in fout.asked : a.provider \in fout.health.providers

====
